---------------------------- MODULE Spec2Model ----------------------------
(***************************************************************************)
(* A model of the generation engine of anq_scaff: the template engine      *)
(* (template_engine.py) and the project generator (generator.py).          *)
(*                                                                         *)
(* Texts are sequences of tokens.  A token is one character ("$", "{",     *)
(* "}", ...) or a run of identifier characters written as one word         *)
(* ("project_name").  File and template names are sequences of chunks      *)
(* (<<"initializer_", "db", ".py">> is "initializer_db.py"), so that the   *)
(* suffix and prefix operations of the code act on them.  Paths are        *)
(* sequences of components.                                                *)
(***************************************************************************)
EXTENDS Naturals, Sequences, FiniteSets, TLC

VARIABLES
    templates,        \* TemplateEngine.templates: catalog key -> text
    env,              \* what the process finds on disk: template dir, fallback tree, uv
    TEMPLATE_MAPPING, \* generator.TEMPLATE_MAPPING: template name -> <<path, condition>>
    db_type, enable_redis, enable_celery,   \* ProjectGenerator's constructor arguments
    fault,            \* the failure injected into this execution
    fs,               \* the filesystem: path -> content (DirEntry for a directory)
    pc,               \* position of ProjectGenerator.generate
    raised,           \* the exception generate raised, as its cause chain, outermost first
    log,              \* logger records of level warning and error
    run,              \* bookkeeping of the current call of generate (GenerationRun)
    calls,            \* number of calls of generate started so far
    r_name, r_context, r_out, r_pc,  \* one call of TemplateEngine.render
    module_name, version,            \* ModuleGenerator's constructor arguments
    args,             \* cli.main: the parsed command line
    generator,        \* cli.main: the generator main constructed, "None" before
    stdout, stderr,   \* cli.main: what main printed to each stream
    exit_code         \* the exit status of the process: <<>> while it runs

vars == <<templates, env, TEMPLATE_MAPPING, db_type, enable_redis, enable_celery,
          fault, fs, pc, raised, log, run, calls, r_name, r_context, r_out, r_pc,
          module_name, version, args, generator, stdout, stderr, exit_code>>

genVars == <<env, TEMPLATE_MAPPING, db_type, enable_redis, enable_celery,
             fault, fs, pc, raised, log, run, calls>>

renderVars == <<r_name, r_context, r_out, r_pc>>

moduleVars == <<module_name, version>>

cliVars == <<args, generator, stdout, stderr, exit_code>>

-----------------------------------------------------------------------------
(* Bounds *)

MaxTextLen == 5
MaxCalls == 2
MaxFaultStep == 2
MaxPreexisting == 2
MaxNameLen == 3

-----------------------------------------------------------------------------
(* Strings, names *)

RECURSIVE Join(_)
\* The string a sequence of tokens or chunks spells.
Join(s) == IF s = <<>> THEN "" ELSE Head(s) \o Join(Tail(s))

Last(s) == s[Len(s)]
Front(s) == SubSeq(s, 1, Len(s) - 1)

\* str(value) of a context value; values are tagged with their Python type.
StrV(s) == [t |-> "str", v |-> s]
BoolV(b) == [t |-> "bool", v |-> b]
str(value) ==
    IF value.t = "bool" THEN (IF value.v THEN "True" ELSE "False") ELSE value.v

-----------------------------------------------------------------------------
(* string.Template(template).safe_substitute of a context *)

\* [_a-z] and [_a-z0-9] of string.Template.idpattern (case-insensitive, ASCII);
\* an identifier word counts as a run of such characters starting with a letter.
IdStartChars ==
    {"a", "_", "project_name", "db_type", "enable_redis", "enable_celery",
     "db_deps", "redis_deps", "module_name", "ModuleName"}
IdChars == IdStartChars \cup {"1"}

RECURSIVE IdEnd(_, _)
\* One past the longest run of identifier characters of text that starts at i.
IdEnd(text, i) ==
    IF i <= Len(text) /\ text[i] \in IdChars THEN IdEnd(text, i + 1) ELSE i

\* The match of string.Template.pattern at a delimiter text[i] = "$":
\* escaped "$$", named "$id", braced "${id}", or invalid (the lone delimiter).
PatternMatch(text, i) ==
    LET n == Len(text) IN
    IF i + 1 <= n /\ text[i + 1] = "$"
    THEN [kind |-> "escaped", next |-> i + 2, key |-> ""]
    ELSE IF i + 1 <= n /\ text[i + 1] \in IdStartChars
    THEN LET e == IdEnd(text, i + 1)
         IN [kind |-> "named", next |-> e, key |-> Join(SubSeq(text, i + 1, e - 1))]
    ELSE IF /\ i + 2 <= n
            /\ text[i + 1] = "{"
            /\ text[i + 2] \in IdStartChars
            /\ LET e == IdEnd(text, i + 2) IN e <= n /\ text[e] = "}"
    THEN LET e == IdEnd(text, i + 2)
         IN [kind |-> "braced", next |-> e + 1, key |-> Join(SubSeq(text, i + 2, e - 1))]
    ELSE [kind |-> "invalid", next |-> i + 1, key |-> ""]

\* convert with a defect: a placeholder whose key is missing is replaced by nothing.
convert_blank(text, i, mo, context) ==
    IF mo.kind \in {"named", "braced"}
    THEN IF mo.key \in DOMAIN context THEN <<str(context[mo.key])>> ELSE <<>>
    ELSE <<"$">>

\* safe_substitute's convert(mo): the replacement of one match.
convert(text, i, mo, context) ==
    IF mo.kind \in {"named", "braced"}
    THEN IF mo.key \in DOMAIN context
         THEN <<str(context[mo.key])>>
         ELSE SubSeq(text, i, mo.next - 1)
    ELSE <<"$">>   \* escaped: the delimiter; invalid: mo.group(), the delimiter

RECURSIVE Substitute(_, _, _)
\* pattern.sub(convert, template) from position i: matches are found left to
\* right and do not overlap; replacements are not scanned again.
Substitute(text, i, context) ==
    IF i > Len(text) THEN <<>>
    ELSE IF text[i] = "$"
    THEN LET mo == PatternMatch(text, i)
         IN convert(text, i, mo, context) \o Substitute(text, mo.next, context)
    ELSE <<text[i]>> \o Substitute(text, i + 1, context)

safe_substitute(template, context) == Substitute(template, 1, context)

-----------------------------------------------------------------------------
(* TemplateEngine: the catalog and render *)

PySuffix == ".py"
\* The extensions _load_templates globs besides *.py.
OtherSuffixes == {".txt", ".md", ".ini", ".toml", ".yaml", ".json", ".js"}
\* special_files of _load_templates, as file names.
special_files == {<<"Dockerfile">>, <<"gitignore">>, <<"dockerignore">>, <<"env_example">>}

Py(base) == <<base, PySuffix>>
Py2(prefix, rest) == <<prefix, rest, PySuffix>>

\* Path.stem of a *.py file name.
stem(file) == Front(file)

\* The template names ModuleGenerator asks for (each without the .py suffix).
ModuleTemplates ==
    {<<"api_module">>, <<"service_module">>, <<"model_module">>, <<"schema_module">>}

\* The text of a template file of the backing source: a line naming the file
\* with one placeholder (the module templates: with the two placeholders of a
\* module); a file listed in env.empty is a file of length 0.
FileText(e, file) ==
    IF file \in e.empty THEN <<>>
    ELSE IF stem(file) \in ModuleTemplates
    THEN <<Join(file), "$", "{", "module_name", "}", " ", "$", "{", "ModuleName", "}">>
    ELSE <<Join(file), "$", "{", "project_name", "}">>

\* The files of the template directory that _load_templates reads.
Loadable(file) ==
    \/ Last(file) = PySuffix /\ file # <<"__init__", PySuffix>>
    \/ Last(file) \in OtherSuffixes
    \/ file \in special_files

\* The key _load_templates stores a file under: the stem of a *.py file, the
\* full name of any other file.
TemplateKey(file) == IF Last(file) = PySuffix THEN stem(file) ELSE file

\* The keys of template_mapping in _load_from_existing_project.
ExistingProjectNames ==
    {Py("main"), Py("app_init"), Py("runserver"),
     Py2("api_", "init"), Py2("api_", "dependencies"), Py2("api_", "exceptions"),
     Py2("api_", "responses"), Py2("api_", "status"), Py2("api_", "ping"),
     Py("models_init"), Py("schemas_init"),
     Py2("initializer_", "init"), Py2("initializer_", "conf"), Py2("initializer_", "db"),
     Py2("initializer_", "log"), Py2("initializer_", "redis"), Py2("initializer_", "snow"),
     Py2("initializer_", "context"),
     Py2("middleware_", "init"), Py2("middleware_", "cors"),
     Py2("middleware_", "exceptions"), Py2("middleware_", "http"),
     Py2("utils_", "jwt"), Py2("utils_", "db_async"), Py2("utils_", "api_key")}

\* _load_from_existing_project: each mapped name whose file exists, keyed by
\* the name as the mapping spells it.
_load_from_existing_project(e) ==
    [name \in (ExistingProjectNames \cap e.admin_files) |-> FileText(e, name)]

\* _get_inline_templates: the admin-fastapi tree if it exists, else nothing.
_get_inline_templates(e) ==
    IF e.admin_dir THEN _load_from_existing_project(e) ELSE <<>>

\* _load_templates: the catalog TemplateEngine.__init__ builds.
_load_templates(e) ==
    IF ~e.templates_dir THEN _get_inline_templates(e)
    ELSE LET files == {f \in e.dir_files : Loadable(f)}
         IN [k \in {TemplateKey(f) : f \in files} |->
                FileText(e, CHOOSE f \in files : TemplateKey(f) = k)]

\* dict.get(key) with a falsy default.
Get(catalog, key) == IF key \in DOMAIN catalog THEN catalog[key] ELSE <<>>

NotFoundLine(template_name) == <<"# Template ", Join(template_name), " not found\n">>

\* TemplateEngine.render
render(template_name, context) ==
    LET t1 == Get(templates, template_name)
        template == IF t1 = <<>>
                    THEN Get(_get_inline_templates(env), template_name)
                    ELSE t1
    IN IF template = <<>>
       THEN NotFoundLine(template_name)
       ELSE safe_substitute(template, context)

-----------------------------------------------------------------------------
(* The filesystem *)

DirEntry == <<"<dir>">>
EmptyFs == [q \in {} |-> DirEntry]
None == <<>>

IsPrefix(p, q) == Len(p) <= Len(q) /\ SubSeq(q, 1, Len(p)) = p
Prefixes(p) == {SubSeq(p, 1, n) : n \in 1..Len(p)}

\* Path.exists
exists(f, p) == p \in DOMAIN f
is_dir(f, p) == p \in DOMAIN f /\ f[p] = DirEntry

\* Path.mkdir(parents=True, exist_ok=True) succeeds unless a component is a file.
mkdir_ok(f, p) == \A q \in Prefixes(p) : exists(f, q) => is_dir(f, q)
mkdir(f, p) ==
    [q \in DOMAIN f \cup Prefixes(p) |-> IF q \in DOMAIN f THEN f[q] ELSE DirEntry]

\* Path.write_text needs the parent directory and a target that is no directory.
parent(p) == Front(p)
write_text(f, p, content) ==
    [q \in DOMAIN f \cup {p} |-> IF q = p THEN content ELSE f[q]]

\* shutil.rmtree
rmtree(f, root) == [q \in {q \in DOMAIN f : ~IsPrefix(root, q)} |-> f[q]]

-----------------------------------------------------------------------------
(* ProjectGenerator: constants and helpers *)

DEFAULT_DB_TYPE == "sqlite"
SUPPORTED_DB_TYPES == {"sqlite", "mysql", "postgresql"}

DB_DEPENDENCIES ==
    [sqlite |-> <<"aiosqlite==0.21.0">>,
     mysql |-> <<"aiomysql==0.2.0", "pymysql==1.1.0">>,
     postgresql |-> <<"asyncpg==0.29.0", "psycopg2-binary==2.9.9">>]

REDIS_DEPENDENCY == "redis==7.1.0"

PROJECT_STRUCTURE ==
    [api |-> [versions |-> <<"v1">>, default |-> TRUE],
     layers |-> << <<"initializer", TRUE>>, <<"middleware", TRUE>>, <<"models", TRUE>>,
                   <<"schemas", TRUE>>, <<"services", TRUE>>, <<"utils", TRUE>>,
                   <<"cache", TRUE>> >>,
     docs |-> TRUE, logs |-> TRUE, tests |-> TRUE, celery |-> FALSE]

\* One row of TEMPLATE_MAPPING: (target path, condition or None).
Row(path, condition) == [path |-> path, condition |-> condition]

\* TEMPLATE_MAPPING as the source ships it: every condition is None.
ShippedMapping ==
    LET rows == {
        <<Py2("initializer_", "init"), <<"app", "initializer", "__init__.py">> >>,
        <<Py("pydantic_settings_config"), <<"app", "initializer", "_settings.py">> >>,
        <<Py2("initializer_", "db"), <<"app", "initializer", "_db.py">> >>,
        <<Py2("initializer_", "log"), <<"app", "initializer", "_log.py">> >>,
        <<Py2("initializer_", "redis"), <<"app", "initializer", "_redis.py">> >>,
        <<Py2("initializer_", "snow"), <<"app", "initializer", "_snow.py">> >>,
        <<Py2("initializer_", "context"), <<"app", "initializer", "context.py">> >>,
        <<Py("cache_init"), <<"app", "cache", "__init__.py">> >>,
        <<Py("cache_manager"), <<"app", "cache", "manager.py">> >>,
        <<Py2("middleware_", "init"), <<"app", "middleware", "__init__.py">> >>,
        <<Py2("middleware_", "cors"), <<"app", "middleware", "cors.py">> >>,
        <<Py2("middleware_", "exceptions"), <<"app", "middleware", "exceptions.py">> >>,
        <<Py2("middleware_", "http"), <<"app", "middleware", "http.py">> >>,
        <<Py2("utils_", "jwt"), <<"app", "utils", "jwt_util.py">> >>,
        <<Py2("utils_", "db_async"), <<"app", "utils", "db_async_util.py">> >>,
        <<Py2("utils_", "api_key"), <<"app", "utils", "api_key_util.py">> >>,
        <<Py2("api_", "init"), <<"app", "api", "__init__.py">> >>,
        <<Py2("api_", "dependencies"), <<"app", "api", "dependencies.py">> >>,
        <<Py2("api_", "exceptions"), <<"app", "api", "exceptions.py">> >>,
        <<Py2("api_", "responses"), <<"app", "api", "responses.py">> >>,
        <<Py2("api_", "status"), <<"app", "api", "status.py">> >>,
        <<Py2("api_", "ping"), <<"app", "api", "default", "ping.py">> >>,
        <<Py("models_init"), <<"app", "models", "__init__.py">> >>,
        <<Py("schemas_init"), <<"app", "schemas", "__init__.py">> >>,
        <<Py("unified_router"), <<"app", "api", "unified_router.py">> >>,
        <<Py("exception_system"), <<"app", "api", "exceptions_enterprise.py">> >>,
        <<Py("context_logging"), <<"app", "utils", "context_logging.py">> >>,
        <<Py("logging_fastcrud"), <<"app", "utils", "logging_fastcrud.py">> >>,
        <<Py("lifespan_manager"), <<"app", "core", "lifespan.py">> >> }
    IN [name \in {r[1] : r \in rows} |->
           Row((CHOOSE r \in rows : r[1] = name)[2], "None")]

\* A table of the declared type whose row for name carries a condition.
WithCondition(table, name, condition) ==
    [table EXCEPT ![name] = Row(table[name].path, condition)]

\* A table without a row for name.
Without(table, name) == [n \in DOMAIN table \ {name} |-> table[n]]

\* The conditions a row may carry: predicates over the render context.
Holds(condition, context) ==
    /\ condition \in DOMAIN context
    /\ context[condition] = BoolV(TRUE)

output_dir == <<"out">>
project_name == "proj"
project_path == output_dir \o <<project_name>>

\* _build_directory_list
_build_directory_list(celery) ==
    LET api == (IF PROJECT_STRUCTURE.api.default
                THEN << <<"app", "api", "default">> >> ELSE <<>>)
               \o [i \in 1..Len(PROJECT_STRUCTURE.api.versions) |->
                      <<"app", "api", PROJECT_STRUCTURE.api.versions[i]>>]
        layers == SelectSeq(PROJECT_STRUCTURE.layers, LAMBDA l : l[2])
        layerDirs == [i \in 1..Len(layers) |-> <<"app", layers[i][1]>>]
        others == SelectSeq(<< <<"docs", PROJECT_STRUCTURE.docs>>,
                               <<"logs", PROJECT_STRUCTURE.logs>>,
                               <<"tests", PROJECT_STRUCTURE.tests>> >>, LAMBDA d : d[2])
        otherDirs == [i \in 1..Len(others) |-> <<others[i][1]>>]
    IN api \o layerDirs \o otherDirs
       \o (IF PROJECT_STRUCTURE.celery /\ celery THEN << <<"app_celery">> >> ELSE <<>>)

\* _get_template_target_path with a defect: a row without a condition is
\* treated as a row whose condition is false.
_get_template_target_path_conditional_only(template_name, context) ==
    IF template_name \in DOMAIN TEMPLATE_MAPPING
    THEN IF TEMPLATE_MAPPING[template_name].condition # "None"
            /\ Holds(TEMPLATE_MAPPING[template_name].condition, context)
         THEN project_path \o TEMPLATE_MAPPING[template_name].path
         ELSE None
    ELSE None

\* _get_template_target_path
_get_template_target_path(template_name, context) ==
    IF template_name \in DOMAIN TEMPLATE_MAPPING
    THEN IF TEMPLATE_MAPPING[template_name].condition = "None"
            \/ Holds(TEMPLATE_MAPPING[template_name].condition, context)
         THEN project_path \o TEMPLATE_MAPPING[template_name].path
         ELSE None
    ELSE None

\* _get_template_name: a name ending in ".py" loses that suffix.
_get_template_name(template_name) ==
    IF Last(template_name) = PySuffix THEN Front(template_name) ELSE template_name

\* str.replace with a defect: the name is returned as it is.
replace_nothing(name, old, new) == name

\* str.replace(old, new) on a name, chunk by chunk.
replace(name, old, new) == [i \in 1..Len(name) |-> IF name[i] = old THEN new ELSE name[i]]

-----------------------------------------------------------------------------
(* The steps of a phase *)

EmptyContext == [k \in {} |-> StrV("")]

\* The fields of a step: what is done, to which path, from which template.
Step(kind, path, content, name, validate, context, resolve, tcontext, wrap) ==
    [kind |-> kind, path |-> path, content |-> content, name |-> name,
     validate |-> validate, context |-> context, resolve |-> resolve,
     tcontext |-> tcontext, wrap |-> wrap]

\* path.mkdir(parents=True, exist_ok=True)
MkdirStep(path, wrap) ==
    Step("mkdir", path, <<>>, <<>>, FALSE, EmptyContext, FALSE, EmptyContext, wrap)
\* if not path.exists(): path.write_text(content)
MarkerStep(path, content, wrap) ==
    Step("marker", path, content, <<>>, FALSE, EmptyContext, FALSE, EmptyContext, wrap)
\* path.write_text(content) of a literal
WriteStep(path, content, wrap) ==
    Step("write", path, content, <<>>, FALSE, EmptyContext, FALSE, EmptyContext, wrap)
\* _validate_template_exists; _render_template; write_text to a fixed path
T(name, context, path, wrap) ==
    Step("template", path, <<>>, name, TRUE, context, FALSE, EmptyContext, wrap)
\* _render_template; write_text to a fixed path, with no existence check
TUnchecked(name, context, path, wrap) ==
    Step("template", path, <<>>, name, FALSE, context, FALSE, EmptyContext, wrap)
\* _validate_template_exists; _render_template; _get_template_target_path,
\* else the fallback path; write_text
TM(name, context, tcontext, fallback, wrap) ==
    Step("template", fallback, <<>>, name, TRUE, context, TRUE, tcontext, wrap)

\* Whether the injected fault makes the k-th filesystem call of phase raise.
FaultAt(phase, k) == fault.kind = "io" /\ fault.phase = phase /\ fault.step = k

\* The state a phase's steps thread through: the filesystem, the number of
\* filesystem calls made, the exception raised (cause chain, outermost first)
\* and the files written, each with the template it came from, the context
\* it was rendered with and the context its target path was decided with.
Failed(st, chain) == [st EXCEPT !.err = chain]

\* write_text of one step
DoWrite(phase, st, op, path, content) ==
    IF FaultAt(phase, st.n + 1)
    THEN Failed(st, op.wrap \o <<"OSError">>)
    ELSE IF ~is_dir(st.fs, parent(path))
    THEN Failed(st, op.wrap \o <<"FileNotFoundError">>)
    ELSE IF is_dir(st.fs, path)
    THEN Failed(st, op.wrap \o <<"IsADirectoryError">>)
    ELSE [st EXCEPT !.fs = write_text(st.fs, path, content),
                    !.n = @ + 1,
                    !.writes = @ \cup {[phase |-> phase, name |-> op.name, path |-> path,
                                         context |-> op.context,
                                         resolve |-> op.resolve,
                                         tcontext |-> op.tcontext]}]

\* _validate_template_exists: TRUE when it returns, FALSE when it raises.
_validate_template_exists(template_name) ==
    _get_template_name(template_name) \in DOMAIN templates

\* _render_template
_render_template(template_name, context) ==
    render(_get_template_name(template_name), context)

\* The path a template step writes to.
TargetOf(op) ==
    IF op.resolve
    THEN LET target_path == _get_template_target_path(op.name, op.tcontext)
         IN IF target_path # None THEN target_path ELSE op.path
    ELSE op.path

ApplyStep(phase, st, op) ==
    IF op.kind = "mkdir"
    THEN IF FaultAt(phase, st.n + 1) THEN Failed(st, op.wrap \o <<"OSError">>)
         ELSE IF ~mkdir_ok(st.fs, op.path) THEN Failed(st, op.wrap \o <<"FileExistsError">>)
         ELSE [st EXCEPT !.fs = mkdir(st.fs, op.path), !.n = @ + 1]
    ELSE IF op.kind = "marker"
    THEN IF exists(st.fs, op.path) THEN st ELSE DoWrite(phase, st, op, op.path, op.content)
    ELSE IF op.kind = "write"
    THEN DoWrite(phase, st, op, op.path, op.content)
    ELSE IF op.validate /\ ~_validate_template_exists(op.name)
    THEN Failed(st, op.wrap \o <<"ValueError">>)
    ELSE DoWrite(phase, st, op, TargetOf(op), _render_template(op.name, op.context))

RECURSIVE ExecSteps(_, _, _, _)
\* The steps of a phase in order, up to the first that raises.
ExecSteps(phase, ops, i, st) ==
    IF i > Len(ops) \/ st.err # <<>> THEN st
    ELSE ExecSteps(phase, ops, i + 1, ApplyStep(phase, st, ops[i]))

Exec(phase, ops) ==
    ExecSteps(phase, ops, 1, [fs |-> fs, n |-> 0, err |-> <<>>, writes |-> {}])

-----------------------------------------------------------------------------
(* The phases of ProjectGenerator.generate, as their steps *)

P(rel) == project_path \o rel

RECURSIVE JoinWith(_, _)
\* sep.join(list)
JoinWith(list, sep) ==
    IF list = <<>> THEN ""
    ELSE IF Len(list) = 1 THEN list[1]
    ELSE list[1] \o sep \o JoinWith(Tail(list), sep)

MapSeq(seq, F(_)) == [i \in 1..Len(seq) |-> F(seq[i])]

MarkerText == <<"\"\"\"\n\"\"\"\n">>

\* _create_directory_structure with a defect: the marker file is not written.
StructureSteps_no_marker ==
    LET directories == _build_directory_list(enable_celery)
    IN [i \in 1..Len(directories) |->
            MkdirStep(P(directories[i]), <<"OSError:create_directory">>)]

\* _create_directory_structure with a defect: the marker file is written
\* whether or not it exists.
StructureSteps_overwriting ==
    LET directories == _build_directory_list(enable_celery)
        wrap == <<"OSError:create_directory">>
        pair(i) == << MkdirStep(P(directories[i]), wrap),
                      WriteStep(P(directories[i] \o <<"__init__.py">>), MarkerText, wrap) >>
        RECURSIVE all(_)
        all(i) == IF i > Len(directories) THEN <<>> ELSE pair(i) \o all(i + 1)
    IN all(1)

\* _create_directory_structure
StructureSteps ==
    LET directories == _build_directory_list(enable_celery)
        wrap == <<"OSError:create_directory">>
        pair(i) == << MkdirStep(P(directories[i]), wrap),
                      MarkerStep(P(directories[i] \o <<"__init__.py">>), MarkerText, wrap) >>
        RECURSIVE all(_)
        all(i) == IF i > Len(directories) THEN <<>> ELSE pair(i) \o all(i + 1)
    IN all(1)

\* _generate_core_files
CoreSteps ==
    LET context == [project_name |-> StrV(project_name),
                    enable_redis |-> BoolV(enable_redis)]
    IN << T(Py("main"), context, P(<<"app", "main.py">>), <<"RuntimeError:main.py">>),
          T(Py("app_init"), context, P(<<"app", "__init__.py">>),
            <<"RuntimeError:app/__init__.py">>) >>

\* _generate_initializer_files
InitializerSteps ==
    LET context == [project_name |-> StrV(project_name),
                    db_type |-> StrV(db_type),
                    enable_redis |-> BoolV(enable_redis)]
        files == << Py2("initializer_", "init"), Py("pydantic_settings_config"),
                    Py2("initializer_", "db"), Py2("initializer_", "log"),
                    Py2("initializer_", "redis"), Py2("initializer_", "snow"),
                    Py2("initializer_", "context") >>
        target_file(file_template) ==
            IF file_template = Py2("initializer_", "init_with_cache")
            THEN "__init__.py"
            ELSE Join(replace(file_template, "initializer_", "_"))
        step(file_template) ==
            TM(file_template, context, context,
               P(<<"app", "initializer", target_file(file_template)>>),
               <<"RuntimeError:initializer">>)
    IN MapSeq(files, step)

\* _generate_middleware_files
MiddlewareSteps ==
    LET context == [project_name |-> StrV(project_name)]
        files == << Py2("middleware_", "init"), Py2("middleware_", "cors"),
                    Py2("middleware_", "exceptions"), Py2("middleware_", "http") >>
        step(file_template) ==
            TM(file_template, context, context,
               P(<<"app", "middleware", Join(replace(file_template, "middleware_", ""))>>),
               <<"RuntimeError:middleware">>)
    IN MapSeq(files, step)

\* _generate_utils_files
UtilsSteps ==
    LET context == [project_name |-> StrV(project_name),
                    enable_redis |-> BoolV(enable_redis)]
        files == << Py2("utils_", "jwt"), Py2("utils_", "db_async"), Py2("utils_", "api_key") >>
        step(file_template) ==
            TM(file_template, context, context,
               P(<<"app", "utils", Join(replace(file_template, "utils_", ""))>>),
               <<"RuntimeError:utils">>)
    IN MapSeq(files, step)

\* _generate_cache_files
CacheSteps ==
    LET wrap == <<"RuntimeError:cache">>
    IN << T(Py("cache_init"), EmptyContext, P(<<"app", "cache", "__init__.py">>), wrap),
          T(Py("cache_manager"), EmptyContext, P(<<"app", "cache", "manager.py">>), wrap) >>

\* _generate_api_example
ApiSteps ==
    LET name_only == [project_name |-> StrV(project_name)]
        with_redis == [project_name |-> StrV(project_name),
                       enable_redis |-> BoolV(enable_redis)]
        outer == <<"RuntimeError:api_example">>
        inner == <<"RuntimeError:api_example", "RuntimeError:api_file">>
        step(file_template) ==
            TM(file_template, name_only, name_only,
               P(<<"app", "api", Join(replace(file_template, "api_", ""))>>), inner)
    IN << TM(Py2("api_", "init"), name_only, name_only,
             P(<<"app", "api", "__init__.py">>), outer),
          TM(Py2("api_", "dependencies"), with_redis, name_only,
             P(<<"app", "api", "dependencies.py">>), outer) >>
       \o MapSeq(<< Py2("api_", "exceptions"), Py2("api_", "responses"),
                    Py2("api_", "status") >>, step)
       \o << TM(Py2("api_", "ping"), EmptyContext, EmptyContext,
                P(<<"app", "api", "default", "ping.py">>), outer) >>

\* _generate_service_example
ServiceSteps ==
    << WriteStep(P(<<"app", "services", "__init__.py">>), <<"\"\"\"\nservices\n\"\"\"\n">>, <<>>) >>

\* _generate_model_example
ModelSteps ==
    << TUnchecked(Py("models_init"), EmptyContext, P(<<"app", "models", "__init__.py">>), <<>>) >>

\* _generate_schema_example
SchemaSteps ==
    << TM(Py("schemas_init"), EmptyContext, EmptyContext,
          P(<<"app", "schemas", "__init__.py">>), <<>>) >>

\* _generate_enterprise_features
EnterpriseSteps ==
    LET context == [project_name |-> StrV(project_name),
                    enable_redis |-> BoolV(enable_redis)]
        wrap == <<"RuntimeError:enterprise">>
    IN << TM(Py("unified_router"), context, context,
             P(<<"app", "api", "unified_router.py">>), wrap),
          TM(Py("exception_system"), context, context,
             P(<<"app", "api", "exceptions_enterprise.py">>), wrap),
          TM(Py("context_logging"), context, context,
             P(<<"app", "utils", "context_logging.py">>), wrap),
          TM(Py("logging_fastcrud"), context, context,
             P(<<"app", "utils", "logging_fastcrud.py">>), wrap),
          TM(Py("pydantic_settings_config"), context, context,
             P(<<"app", "initializer", "_settings.py">>), wrap),
          MkdirStep(P(<<"app", "core">>), wrap),
          WriteStep(P(<<"app", "core", "__init__.py">>), <<"\"\"\"\ncore\n\"\"\"\n">>, wrap),
          TM(Py("lifespan_manager"), context, context,
             P(<<"app", "core", "lifespan.py">>), wrap) >>

\* _should_use_uv
_should_use_uv == env.has_uv

\* _generate_test_files
TestSteps ==
    LET context == [project_name |-> StrV(project_name),
                    db_type |-> StrV(db_type),
                    enable_redis |-> BoolV(enable_redis),
                    enable_celery |-> BoolV(enable_celery)]
        wrap == <<"RuntimeError:tests">>
    IN << T(Py("conftest"), EmptyContext, P(<<"tests", "conftest.py">>), wrap),
          T(Py("test_example"), EmptyContext, P(<<"tests", "test_example.py">>), wrap),
          T(<<"pytest", ".ini">>, EmptyContext, P(<<"pytest.ini">>), wrap),
          T(<<"generate_code", ".js">>, EmptyContext, P(<<"generate_code.js">>), wrap),
          T(<<"package", ".json">>, EmptyContext, P(<<"package.json">>), wrap) >>
       \o (IF _should_use_uv
           THEN << T(<<"uv", ".toml">>, context, P(<<"uv.toml">>), wrap) >>
           ELSE <<>>)
       \o << T(<<"env_example">>, EmptyContext, P(<<".env.example">>),
               <<"RuntimeError:.env.example">>) >>

\* _generate_docs_files
DocsSteps ==
    LET docs_dir == P(<<"docs">>)
    IN << T(<<"docs_api", ".md">>, EmptyContext, docs_dir \o <<"api.md">>, <<>>),
          T(<<"docs_development", ".md">>, EmptyContext, docs_dir \o <<"development.md">>, <<>>),
          T(<<"docs_deployment", ".md">>, EmptyContext, docs_dir \o <<"deployment.md">>, <<>>) >>

\* The context of _generate_other_files with a defect: the dependency lines
\* of the default db kind are taken whatever db_type is.
OtherContext_default_db ==
    [project_name |-> StrV(project_name),
     db_type |-> StrV(db_type),
     enable_redis |-> BoolV(enable_redis),
     enable_celery |-> BoolV(enable_celery),
     redis_deps |-> StrV(IF enable_redis THEN REDIS_DEPENDENCY ELSE ""),
     db_deps |-> StrV(JoinWith(DB_DEPENDENCIES[DEFAULT_DB_TYPE], "\n"))]

\* The context of _generate_other_files with a defect: db_type is rebound,
\* postgresql being replaced by the default db kind.
OtherContext_db_type_found ==
    [project_name |-> StrV(project_name),
     db_type |-> StrV(IF db_type = "postgresql" THEN DEFAULT_DB_TYPE ELSE db_type),
     enable_redis |-> BoolV(enable_redis),
     enable_celery |-> BoolV(enable_celery),
     redis_deps |-> StrV(IF enable_redis THEN REDIS_DEPENDENCY ELSE ""),
     db_deps |-> StrV(JoinWith(DB_DEPENDENCIES[db_type], "\n"))]

\* The context _generate_other_files renders with.
OtherContext ==
    LET db_deps_list == IF db_type \in DOMAIN DB_DEPENDENCIES
                        THEN DB_DEPENDENCIES[db_type]
                        ELSE DB_DEPENDENCIES[DEFAULT_DB_TYPE]
        db_deps == JoinWith(db_deps_list, "\n")
        redis_deps == IF enable_redis THEN REDIS_DEPENDENCY ELSE ""
    IN [project_name |-> StrV(project_name),
        db_type |-> StrV(db_type),
        enable_redis |-> BoolV(enable_redis),
        enable_celery |-> BoolV(enable_celery),
        redis_deps |-> StrV(redis_deps),
        db_deps |-> StrV(db_deps)]

\* _generate_other_files
OtherSteps ==
    LET context == OtherContext
        wrap == <<"RuntimeError:other">>
    IN << T(<<"requirements", ".txt">>, context, P(<<"requirements.txt">>), wrap),
          T(<<"pyproject", ".toml">>, context, P(<<"pyproject.toml">>), wrap),
          T(Py("runserver"), EmptyContext, P(<<"runserver.py">>), wrap),
          T(<<"README", ".md">>, context, P(<<"README.md">>), wrap),
          T(<<"gitignore">>, EmptyContext, P(<<".gitignore">>), wrap),
          T(<<"dockerignore">>, EmptyContext, P(<<".dockerignore">>), wrap),
          T(<<"Dockerfile">>, context, P(<<"Dockerfile">>), wrap),
          T(<<"docker_compose", ".yaml">>, context, P(<<"docker-compose.yaml">>), wrap) >>

-----------------------------------------------------------------------------
(* ProjectGenerator.generate *)

\* The phases with a defect: the misc phase is called before the docs phase.
Phases_other_before_docs ==
    << "root", "structure", "core", "initializer", "middleware", "utils",
       "cache", "api", "service", "model", "schema", "enterprise",
       "tests", "other", "docs" >>

\* The phases inside the try block, in the order generate runs them.
Phases == << "root", "structure", "core", "initializer", "middleware", "utils",
             "cache", "api", "service", "model", "schema", "enterprise",
             "tests", "docs", "other" >>
PhaseSet == {Phases[i] : i \in 1..Len(Phases)}
PhasesAfterRoot == PhaseSet \ {"root"}
PhaseIndex(p) == CHOOSE i \in 1..Len(Phases) : Phases[i] = p
\* Where control goes after phase p returns.
After(p) == IF PhaseIndex(p) = Len(Phases) THEN "done" ELSE Phases[PhaseIndex(p) + 1]

NewRun(f) ==
    [fs0 |-> f,              \* the filesystem when generate was called
     root_existed |-> exists(f, project_path),
     root_by |-> "nobody",   \* who created the root seen by this call: "run" or "other"
     completed |-> <<>>,     \* the phases that returned
     hit |-> "none",         \* the phase in which an exception was raised
     orig |-> "",            \* that exception
     error |-> <<>>,         \* the exception that left the phase, as its cause chain
     writes |-> {},          \* the files written, with phase and template
     cleanup |-> "none"]     \* the rollback: "none", "deleted", "failed", "no_root"

\* generate_check with a defect: the existence check sits inside the try block,
\* so that its error reaches the except clause.
generate_check_in_try ==
    /\ pc \in {"idle", "done", "raised"}
    /\ calls < MaxCalls
    /\ calls' = calls + 1
    /\ IF exists(fs, project_path)
       THEN /\ pc' = "except"
            /\ run' = [NewRun(fs) EXCEPT !.error = <<"ValueError:exists">>]
       ELSE /\ pc' = "root"
            /\ run' = NewRun(fs)
    /\ raised' = <<>>
    /\ UNCHANGED <<templates, env, TEMPLATE_MAPPING, db_type, enable_redis,
                   enable_celery, fault, fs, log, renderVars, moduleVars, cliVars>>

\* The call of generate up to the try block: the existence check.
generate_check ==
    /\ pc \in {"idle", "done", "raised"}
    /\ calls < MaxCalls
    /\ calls' = calls + 1
    /\ run' = NewRun(fs)
    /\ IF exists(fs, project_path)
       THEN /\ pc' = "raised"
            /\ raised' = <<"ValueError:exists">>
            /\ log' = Append(log, [level |-> "error", about |-> <<"ValueError:exists">>])
       ELSE /\ pc' = "root"
            /\ raised' = <<>>
            /\ log' = log
    /\ UNCHANGED <<templates, env, TEMPLATE_MAPPING, db_type, enable_redis,
                   enable_celery, fault, fs, renderVars, moduleVars, cliVars>>

\* One phase of the try block: its steps run up to the first that raises; an
\* exception leaves the phase for the except clause of generate.
Phase(phase, steps) ==
    /\ pc = phase
    /\ LET st == Exec(phase, steps)
       IN /\ fs' = st.fs
          /\ IF st.err = <<>>
             THEN /\ pc' = After(phase)
                  /\ run' = [run EXCEPT !.completed = Append(@, phase),
                                        !.writes = @ \cup st.writes]
             ELSE /\ pc' = "except"
                  /\ run' = [run EXCEPT !.hit = phase,
                                        !.orig = Last(st.err),
                                        !.error = st.err,
                                        !.writes = @ \cup st.writes]
    /\ UNCHANGED <<templates, env, TEMPLATE_MAPPING, db_type, enable_redis,
                   enable_celery, fault, raised, log, calls, renderVars, moduleVars, cliVars>>

\* A phase whose own handler logs the exception as a warning and returns.
PhaseSwallowing(phase, steps) ==
    /\ pc = phase
    /\ LET st == Exec(phase, steps)
       IN /\ fs' = st.fs
          /\ pc' = After(phase)
          /\ IF st.err = <<>>
             THEN /\ run' = [run EXCEPT !.completed = Append(@, phase),
                                        !.writes = @ \cup st.writes]
                  /\ log' = log
             ELSE /\ run' = [run EXCEPT !.completed = Append(@, phase),
                                        !.hit = phase,
                                        !.orig = Last(st.err),
                                        !.writes = @ \cup st.writes]
                  /\ log' = Append(log, [level |-> "warning", about |-> st.err])
    /\ UNCHANGED <<templates, env, TEMPLATE_MAPPING, db_type, enable_redis,
                   enable_celery, fault, raised, calls, renderVars, moduleVars, cliVars>>

\* self.project_path.mkdir(parents=True, exist_ok=True)
create_root ==
    /\ pc = "root"
    /\ LET st == Exec("root", << MkdirStep(project_path, <<>>) >>)
       IN /\ fs' = st.fs
          /\ IF st.err = <<>>
             THEN /\ pc' = After("root")
                  /\ run' = [run EXCEPT
                                !.completed = Append(@, "root"),
                                !.root_by = IF exists(fs, project_path) THEN "other" ELSE "run"]
             ELSE /\ pc' = "except"
                  /\ run' = [run EXCEPT !.hit = "root", !.orig = Last(st.err),
                                        !.error = st.err]
    /\ UNCHANGED <<templates, env, TEMPLATE_MAPPING, db_type, enable_redis,
                   enable_celery, fault, raised, log, calls, renderVars, moduleVars, cliVars>>

_create_directory_structure ==
    /\ pc = "structure"
    /\ Phase("structure", StructureSteps)
_generate_core_files ==
    /\ pc = "core"
    /\ Phase("core", CoreSteps)
_generate_initializer_files ==
    /\ pc = "initializer"
    /\ Phase("initializer", InitializerSteps)
_generate_middleware_files ==
    /\ pc = "middleware"
    /\ Phase("middleware", MiddlewareSteps)
_generate_utils_files ==
    /\ pc = "utils"
    /\ Phase("utils", UtilsSteps)
_generate_cache_files ==
    /\ pc = "cache"
    /\ Phase("cache", CacheSteps)
_generate_api_example ==
    /\ pc = "api"
    /\ Phase("api", ApiSteps)
_generate_service_example ==
    /\ pc = "service"
    /\ Phase("service", ServiceSteps)
_generate_model_example ==
    /\ pc = "model"
    /\ Phase("model", ModelSteps)
_generate_schema_example ==
    /\ pc = "schema"
    /\ Phase("schema", SchemaSteps)
_generate_enterprise_features ==
    /\ pc = "enterprise"
    /\ Phase("enterprise", EnterpriseSteps)

\* _generate_test_files with a defect: it handles its exception as the docs phase does.
_generate_test_files_swallowing ==
    /\ pc = "tests"
    /\ PhaseSwallowing("tests", TestSteps)

_generate_test_files ==
    /\ pc = "tests"
    /\ Phase("tests", TestSteps)
_generate_docs_files ==
    /\ pc = "docs"
    /\ PhaseSwallowing("docs", DocsSteps)
_generate_other_files ==
    /\ pc = "other"
    /\ Phase("other", OtherSteps)

\* The chain of the exception generate raises from its except clause.
GenerationFailed(e) == <<"RuntimeError:generate">> \o e

\* The except clause with a defect: a failed cleanup is what generate raises.
generate_except_cleanup_masks ==
    /\ pc = "except"
    /\ pc' = "raised"
    /\ IF exists(fs, project_path)
       THEN IF fault.rmtree
            THEN /\ fs' = fs
                 /\ raised' = <<"OSError:rmtree">>
                 /\ run' = [run EXCEPT !.cleanup = "failed"]
            ELSE /\ fs' = rmtree(fs, project_path)
                 /\ raised' = GenerationFailed(run.error)
                 /\ run' = [run EXCEPT !.cleanup = "deleted"]
       ELSE /\ fs' = fs
            /\ raised' = GenerationFailed(run.error)
            /\ run' = [run EXCEPT !.cleanup = "no_root"]
    /\ log' = Append(log, [level |-> "error", about |-> run.error])
    /\ UNCHANGED <<templates, env, TEMPLATE_MAPPING, db_type, enable_redis,
                   enable_celery, fault, calls, renderVars, moduleVars, cliVars>>

\* The except clause with a defect: the error is raised without "from e".
generate_except_no_cause ==
    /\ pc = "except"
    /\ pc' = "raised"
    /\ raised' = <<"RuntimeError:generate">>
    /\ IF exists(fs, project_path) /\ ~fault.rmtree
       THEN fs' = rmtree(fs, project_path) /\ run' = [run EXCEPT !.cleanup = "deleted"]
       ELSE fs' = fs /\ run' = [run EXCEPT !.cleanup = "failed"]
    /\ log' = Append(log, [level |-> "error", about |-> run.error])
    /\ UNCHANGED <<templates, env, TEMPLATE_MAPPING, db_type, enable_redis,
                   enable_celery, fault, calls, renderVars, moduleVars, cliVars>>

\* The except clause of generate: log, delete the root if it exists (a failure
\* of the deletion is logged as a warning), raise RuntimeError from e.
generate_except ==
    /\ pc = "except"
    /\ pc' = "raised"
    /\ raised' = GenerationFailed(run.error)
    /\ IF exists(fs, project_path)
       THEN IF fault.rmtree
            THEN /\ fs' = fs
                 /\ run' = [run EXCEPT !.cleanup = "failed"]
                 /\ log' = log \o << [level |-> "error", about |-> run.error],
                                     [level |-> "warning", about |-> <<"OSError:rmtree">>] >>
            ELSE /\ fs' = rmtree(fs, project_path)
                 /\ run' = [run EXCEPT !.cleanup = "deleted"]
                 /\ log' = Append(log, [level |-> "error", about |-> run.error])
       ELSE /\ fs' = fs
            /\ run' = [run EXCEPT !.cleanup = "no_root"]
            /\ log' = Append(log, [level |-> "error", about |-> run.error])
    /\ UNCHANGED <<templates, env, TEMPLATE_MAPPING, db_type, enable_redis,
                   enable_celery, fault, calls, renderVars, moduleVars, cliVars>>

\* Another run or actor creates the root between the existence check of
\* generate and its mkdir.
other_creates_root ==
    /\ pc = "root"
    /\ ~exists(fs, project_path)
    /\ fs' = write_text(mkdir(fs, project_path), project_path \o <<"theirs.txt">>, <<"theirs">>)
    /\ UNCHANGED <<templates, env, TEMPLATE_MAPPING, db_type, enable_redis,
                   enable_celery, fault, pc, raised, log, run, calls, renderVars, moduleVars, cliVars>>

-----------------------------------------------------------------------------
(* TemplateEngine.render, called once *)

Render ==
    /\ r_pc = "ready"
    /\ r_out' = render(r_name, r_context)
    /\ r_pc' = "done"
    /\ UNCHANGED <<templates, genVars, r_name, r_context, moduleVars, cliVars>>

-----------------------------------------------------------------------------
(* Initial states *)

\* The *.py files of src/templates.
ShippedPyFiles ==
    {Py2("api_", "dependencies"), Py2("api_", "exceptions"), Py2("api_", "init"),
     Py("api_module"), Py2("api_", "ping"), Py2("api_", "responses"), Py2("api_", "status"),
     Py("cache_init"), Py("cache_manager"), Py("conftest"), Py("context_logging"),
     Py("exception_system"), Py2("initializer_", "context"), Py2("initializer_", "db"),
     Py2("initializer_", "init"), Py2("initializer_", "init_with_cache"),
     Py2("initializer_", "log"), Py2("initializer_", "redis"), Py2("initializer_", "snow"),
     Py("lifespan_manager"), Py("logging_fastcrud"), Py("main"),
     Py2("middleware_", "cors"), Py2("middleware_", "exceptions"),
     Py2("middleware_", "http"), Py2("middleware_", "init"),
     Py("model_module"), Py("models_init"), Py("pydantic_settings_config"),
     Py("schema_module"), Py("schemas_init"), Py("service_module"), Py("test_example"),
     Py("unified_router"), Py2("utils_", "api_key"), Py2("utils_", "db_async"),
     Py2("utils_", "jwt")}

\* Every template generate asks for, whatever the flags.
RequestedFiles ==
    {Py("main"), Py("app_init"), Py("runserver"), Py("models_init"), Py("schemas_init"),
     Py("cache_init"), Py("cache_manager"), Py("conftest"), Py("test_example"),
     Py("unified_router"), Py("exception_system"), Py("context_logging"),
     Py("logging_fastcrud"), Py("pydantic_settings_config"), Py("lifespan_manager"),
     Py2("initializer_", "init"), Py2("initializer_", "db"), Py2("initializer_", "log"),
     Py2("initializer_", "redis"), Py2("initializer_", "snow"), Py2("initializer_", "context"),
     Py2("middleware_", "init"), Py2("middleware_", "cors"),
     Py2("middleware_", "exceptions"), Py2("middleware_", "http"),
     Py2("utils_", "jwt"), Py2("utils_", "db_async"), Py2("utils_", "api_key"),
     Py2("api_", "init"), Py2("api_", "dependencies"), Py2("api_", "exceptions"),
     Py2("api_", "responses"), Py2("api_", "status"), Py2("api_", "ping"),
     <<"pytest", ".ini">>, <<"generate_code", ".js">>, <<"package", ".json">>,
     <<"uv", ".toml">>, <<"env_example">>,
     <<"docs_api", ".md">>, <<"docs_development", ".md">>, <<"docs_deployment", ".md">>,
     <<"requirements", ".txt">>, <<"pyproject", ".toml">>, <<"README", ".md">>,
     <<"gitignore">>, <<"dockerignore">>, <<"Dockerfile">>, <<"docker_compose", ".yaml">>}

\* A template directory holding every file the generators ask for.
FullDir == ShippedPyFiles \cup RequestedFiles \cup {<<"__init__", PySuffix>>}

Env(templates_dir, dir_files, admin_dir, admin_files, has_uv) ==
    [templates_dir |-> templates_dir, dir_files |-> dir_files, empty |-> {},
     admin_dir |-> admin_dir, admin_files |-> admin_files, has_uv |-> has_uv]

NoFault(rm) == [kind |-> "none", phase |-> "none", step |-> 0, rmtree |-> rm]
IoFault(phase, step, rm) == [kind |-> "io", phase |-> phase, step |-> step, rmtree |-> rm]

FsOut == mkdir(EmptyFs, output_dir)
FsRoot == write_text(mkdir(EmptyFs, project_path), project_path \o <<"theirs.txt">>, <<"theirs">>)

\* Tables of the declared type: the shipped one, one with a conditional row,
\* one lacking a row.
MappingTables ==
    {ShippedMapping,
     WithCondition(ShippedMapping, Py2("initializer_", "redis"), "enable_redis"),
     Without(ShippedMapping, Py2("utils_", "jwt"))}

\* No ModuleGenerator has been constructed.
ModuleIdle ==
    /\ module_name = <<>>
    /\ version = ""

\* main is not running: the generators are called directly.
NoArgs == [command |-> "", name |-> <<>>, version |-> <<>>]
CliIdle ==
    /\ args = NoArgs
    /\ generator = "None"
    /\ stdout = <<>>
    /\ stderr = <<>>
    /\ exit_code = <<>>

RenderIdle ==
    /\ r_name = <<>>
    /\ r_context = EmptyContext
    /\ r_out = <<>>
    /\ r_pc = "off"

GenStart ==
    /\ pc = "idle"
    /\ raised = <<>>
    /\ log = <<>>
    /\ run = NewRun(fs)
    /\ calls = 0
    /\ templates = _load_templates(env)

\* The inputs: the flags, the backing source of the catalog, the table, the
\* filesystem, and at most one injected failure (a filesystem call that raises
\* or a template file that is absent).
Init ==
    /\ enable_redis \in BOOLEAN
    /\ enable_celery \in BOOLEAN
    /\ fs \in {EmptyFs, FsOut, FsRoot}
    /\ \/ /\ db_type \in SUPPORTED_DB_TYPES
          /\ fault \in {NoFault(rm) : rm \in BOOLEAN}
          /\ env \in {Env(TRUE, FullDir, FALSE, {}, uv) : uv \in BOOLEAN}
                     \cup {Env(FALSE, {}, TRUE, ExistingProjectNames, TRUE),
                           Env(FALSE, {}, FALSE, {}, TRUE)}
          /\ TEMPLATE_MAPPING \in MappingTables
       \/ /\ db_type = DEFAULT_DB_TYPE
          /\ fault \in {IoFault(p, k, rm) : p \in PhaseSet, k \in 1..MaxFaultStep, rm \in BOOLEAN}
          /\ env = Env(TRUE, FullDir, FALSE, {}, TRUE)
          /\ TEMPLATE_MAPPING = ShippedMapping
       \/ /\ db_type = DEFAULT_DB_TYPE
          /\ fault \in {NoFault(rm) : rm \in BOOLEAN}
          /\ env \in {Env(TRUE, FullDir \ {f}, FALSE, {}, TRUE) : f \in RequestedFiles}
          /\ TEMPLATE_MAPPING = ShippedMapping
    /\ GenStart
    /\ RenderIdle
    /\ ModuleIdle
    /\ CliIdle

Next ==
    \/ generate_check
    \/ create_root
    \/ _create_directory_structure
    \/ _generate_core_files
    \/ _generate_initializer_files
    \/ _generate_middleware_files
    \/ _generate_utils_files
    \/ _generate_cache_files
    \/ _generate_api_example
    \/ _generate_service_example
    \/ _generate_model_example
    \/ _generate_schema_example
    \/ _generate_enterprise_features
    \/ _generate_test_files
    \/ _generate_docs_files
    \/ _generate_other_files
    \/ generate_except

Spec == Init /\ [][Next]_vars

\* Executions in which another actor may create the root after the check.
InitRace ==
    /\ db_type = DEFAULT_DB_TYPE
    /\ enable_redis \in BOOLEAN
    /\ enable_celery \in BOOLEAN
    /\ fs \in {EmptyFs, FsOut}
    /\ fault \in {NoFault(rm) : rm \in BOOLEAN}
                 \cup {IoFault(p, k, rm) :
                          p \in PhasesAfterRoot, k \in 1..MaxFaultStep, rm \in BOOLEAN}
    /\ env = Env(TRUE, FullDir, FALSE, {}, TRUE)
    /\ TEMPLATE_MAPPING = ShippedMapping
    /\ GenStart
    /\ RenderIdle
    /\ ModuleIdle
    /\ CliIdle

NextRace == Next \/ other_creates_root

SpecRace == InitRace /\ [][NextRace]_vars

\* The texts and contexts render is tried on.
Alphabet == {"$", "{", "}", "a", "1"}
Texts == UNION {[1..n -> Alphabet] : n \in 0..MaxTextLen}
Keys == {"a", "a1"}
Values == {StrV("v"), BoolV(TRUE)}
Contexts == UNION {[S -> Values] : S \in SUBSET Keys}

InitRender ==
    /\ r_name = <<"t">>
    /\ templates \in {[k \in {r_name} |-> text] : text \in Texts}
    /\ r_context \in Contexts
    /\ r_out = <<>>
    /\ r_pc = "ready"
    /\ env = Env(TRUE, {}, FALSE, {}, FALSE)
    /\ TEMPLATE_MAPPING = ShippedMapping
    /\ db_type = DEFAULT_DB_TYPE
    /\ enable_redis = FALSE
    /\ enable_celery = FALSE
    /\ fault = NoFault(FALSE)
    /\ fs = EmptyFs
    /\ pc = "off"
    /\ raised = <<>>
    /\ log = <<>>
    /\ run = NewRun(EmptyFs)
    /\ calls = 0
    /\ ModuleIdle
    /\ CliIdle

SpecRender == InitRender /\ [][Render]_vars

-----------------------------------------------------------------------------
(* _create_directory_structure called on a tree that is partly there *)

RECURSIVE MkdirAll(_, _)
\* The tree f with every directory of the set paths made.
MkdirAll(f, paths) ==
    IF paths = {} THEN f
    ELSE LET p == CHOOSE p \in paths : TRUE
         IN MkdirAll(mkdir(f, p), paths \ {p})

RECURSIVE WriteAll(_, _, _)
\* The tree f with content written to every file of the set paths.
WriteAll(f, paths, content) ==
    IF paths = {} THEN f
    ELSE LET p == CHOOSE p \in paths : TRUE
         IN WriteAll(write_text(f, p, content), paths \ {p}, content)

\* What a user wrote into a marker file before the call.
EditedMarker == <<"# edited\n">>

\* The root with the directories dirs of the list made and, in those of
\* marked, a marker file that was edited by hand.
PartialTree(dirs, marked) ==
    WriteAll(MkdirAll(mkdir(EmptyFs, project_path), {P(d) : d \in dirs}),
             {P(d \o <<"__init__.py">>) : d \in marked}, EditedMarker)

\* The bookkeeping of direct calls of _create_directory_structure: the tree
\* before the first call and the tree after each call.
BuilderRun(f) == [fs0 |-> f, after |-> <<>>]

\* One call of _create_directory_structure, outside generate.
call_create_directory_structure ==
    /\ pc \in {"builder", "builder_returned"}
    /\ calls < MaxCalls
    /\ calls' = calls + 1
    /\ LET st == Exec("structure", StructureSteps)
       IN /\ fs' = st.fs
          /\ raised' = st.err
          /\ pc' = IF st.err = <<>> THEN "builder_returned" ELSE "builder_raised"
          /\ run' = [run EXCEPT !.after = Append(@, st.fs)]
    /\ UNCHANGED <<templates, env, TEMPLATE_MAPPING, db_type, enable_redis,
                   enable_celery, fault, log, renderVars, moduleVars, cliVars>>

InitStructure ==
    /\ db_type = DEFAULT_DB_TYPE
    /\ enable_redis = FALSE
    /\ enable_celery \in BOOLEAN
    /\ fault = NoFault(FALSE)
    /\ env = Env(TRUE, FullDir, FALSE, {}, TRUE)
    /\ TEMPLATE_MAPPING = ShippedMapping
    /\ templates = _load_templates(env)
    /\ LET listed == {_build_directory_list(enable_celery)[i] :
                         i \in 1..Len(_build_directory_list(enable_celery))}
       IN \E dirs \in {D \in SUBSET listed : Cardinality(D) <= MaxPreexisting} :
              \E marked \in SUBSET dirs :
                  fs \in {PartialTree(dirs, marked)} \cup {EmptyFs, FsOut}
    /\ pc = "builder"
    /\ raised = <<>>
    /\ log = <<>>
    /\ run = BuilderRun(fs)
    /\ calls = 0
    /\ RenderIdle
    /\ ModuleIdle
    /\ CliIdle

SpecStructure == InitStructure /\ [][call_create_directory_structure]_vars

-----------------------------------------------------------------------------
(* ModuleGenerator (module_generator.py) *)

\* The characters module names are made of here: a lower-case and an
\* upper-case letter, the two separators, a digit.
NameAlphabet == {"a", "B", "_", "-", "1"}

ascii_lowercase == << "a", "b", "c", "d", "e", "f", "g", "h", "i", "j", "k", "l", "m",
                      "n", "o", "p", "q", "r", "s", "t", "u", "v", "w", "x", "y", "z" >>
ascii_uppercase == << "A", "B", "C", "D", "E", "F", "G", "H", "I", "J", "K", "L", "M",
                      "N", "O", "P", "Q", "R", "S", "T", "U", "V", "W", "X", "Y", "Z" >>
AsciiLetters == {ascii_lowercase[i] : i \in 1..Len(ascii_lowercase)}
                    \cup {ascii_uppercase[i] : i \in 1..Len(ascii_uppercase)}
AsciiDigits == {"0", "1", "2", "3", "4", "5", "6", "7", "8", "9"}

\* str.upper and str.lower of one character.
upper(c) ==
    IF \E i \in 1..Len(ascii_lowercase) : ascii_lowercase[i] = c
    THEN ascii_uppercase[CHOOSE i \in 1..Len(ascii_lowercase) : ascii_lowercase[i] = c]
    ELSE c
lower(c) ==
    IF \E i \in 1..Len(ascii_uppercase) : ascii_uppercase[i] = c
    THEN ascii_lowercase[CHOOSE i \in 1..Len(ascii_uppercase) : ascii_uppercase[i] = c]
    ELSE c

\* str.capitalize: the first character upper-cased, the rest lower-cased.
capitalize(s) ==
    [i \in 1..Len(s) |-> IF i = 1 THEN upper(s[i]) ELSE lower(s[i])]

\* keyword.kwlist
kwlist ==
    {"False", "None", "True", "and", "as", "assert", "async", "await", "break", "class",
     "continue", "def", "del", "elif", "else", "except", "finally", "for", "from",
     "global", "if", "import", "in", "is", "lambda", "nonlocal", "not", "or", "pass",
     "raise", "return", "try", "while", "with", "yield"}

WINDOWS_RESERVED_NAMES ==
    {"CON", "PRN", "AUX", "NUL", "COM1", "COM2", "COM3", "COM4", "COM5", "COM6", "COM7",
     "COM8", "COM9", "LPT1", "LPT2", "LPT3", "LPT4", "LPT5", "LPT6", "LPT7", "LPT8", "LPT9"}

Whitespace == {" ", "\t", "\n"}

RECURSIVE lstrip(_)
lstrip(s) == IF s # <<>> /\ Head(s) \in Whitespace THEN lstrip(Tail(s)) ELSE s
RECURSIVE rstrip(_)
rstrip(s) == IF s # <<>> /\ Last(s) \in Whitespace THEN rstrip(Front(s)) ELSE s
\* str.strip
strip(s) == rstrip(lstrip(s))

\* cli.validate_name: TRUE when it returns the stripped name, FALSE when it
\* raises.  A name that matches the pattern holds no "..", "/" or backslash.
validate_name(name) ==
    LET stripped == strip(name)
    IN /\ Len(stripped) >= 2
       /\ Len(stripped) <= 50
       /\ stripped[1] \in AsciiLetters
       /\ \A i \in 1..Len(stripped) :
              stripped[i] \in AsciiLetters \cup AsciiDigits \cup {"_", "-"}
       /\ Join(stripped) \notin kwlist
       /\ Join([i \in 1..Len(stripped) |-> upper(stripped[i])]) \notin WINDOWS_RESERVED_NAMES

\* cli.validate_version: the pattern ^v\d+$, whose $ also matches before a
\* final newline.
validate_version(v) ==
    LET body == IF v # <<>> /\ Last(v) = "\n" THEN Front(v) ELSE v
    IN /\ Len(body) >= 2
       /\ body[1] = "v"
       /\ \A i \in 2..Len(body) : body[i] \in AsciiDigits

\* ModuleGenerator._get_context
_get_context ==
    [module_name |-> StrV(Join(module_name)),
     ModuleName |-> StrV(Join(capitalize(module_name)))]

\* f"{self.module_name}.py"
ModuleFile == Join(module_name) \o PySuffix

api_version_dir == P(<<"app", "api", version>>)
services_dir == P(<<"app", "services">>)
models_dir == P(<<"app", "models">>)
schemas_dir == P(<<"app", "schemas">>)

\* The end of a _generate_*_file method: the file is written.
WriteModuleFile(st, template_name, dir, only_if_absent) ==
    IF st.err # <<>> THEN st
    ELSE IF only_if_absent /\ exists(st.fs, dir \o <<ModuleFile>>) THEN st
    ELSE DoWrite("module", st, T(template_name, _get_context, dir \o <<ModuleFile>>, <<>>),
                 dir \o <<ModuleFile>>, render(template_name, _get_context))

\* The body the four _generate_*_file methods share: the template must be in
\* the catalog, it is rendered, the directory is made if the method makes it,
\* the file is written.
GenerateModuleFile(st, template_name, dir, makes_dir, only_if_absent) ==
    IF template_name \notin DOMAIN templates
    THEN Failed(st, <<"ValueError">>)
    ELSE WriteModuleFile(IF makes_dir THEN ApplyStep("module", st, MkdirStep(dir, <<>>))
                         ELSE st,
                         template_name, dir, only_if_absent)

_generate_api_file(st) ==
    GenerateModuleFile(st, <<"api_module">>, api_version_dir, FALSE, FALSE)

\* _generate_service_file with a defect: an existing file is not overwritten.
_generate_service_file_if_absent(st) ==
    GenerateModuleFile(st, <<"service_module">>, services_dir, TRUE, TRUE)

_generate_service_file(st) ==
    GenerateModuleFile(st, <<"service_module">>, services_dir, TRUE, FALSE)

\* _generate_model_file with a defect: the file goes to the schemas directory.
_generate_model_file_in_schemas(st) ==
    GenerateModuleFile(st, <<"model_module">>, schemas_dir, TRUE, FALSE)

_generate_model_file(st) ==
    GenerateModuleFile(st, <<"model_module">>, models_dir, TRUE, FALSE)

_generate_schema_file(st) ==
    GenerateModuleFile(st, <<"schema_module">>, schemas_dir, TRUE, FALSE)

\* The project check of generate with a defect: it looks at the project
\* path, not at its app subtree.
is_valid_project_root_only(f) == exists(f, project_path)

\* (self.project_path / "app").exists()
is_valid_project(f) == exists(f, P(<<"app">>))

\* The except clause of generate with a defect: what the call wrote is undone.
module_except_rollback(st, f0) ==
    IF st.err = <<>> THEN st ELSE [st EXCEPT !.fs = f0]

\* The except clause of ModuleGenerator.generate: log and re-raise as is.
module_except(st, f0) == st

\* The i-th statement of the try block of ModuleGenerator.generate.
ModuleStatement(i, st) ==
    CASE i = 1 -> ApplyStep("module", st, MkdirStep(api_version_dir, <<>>))
      [] i = 2 -> _generate_api_file(st)
      [] i = 3 -> _generate_service_file(st)
      [] i = 4 -> _generate_model_file(st)
      [] OTHER -> _generate_schema_file(st)

RECURSIVE ModuleStatements(_, _)
\* The statements of the try block from the i-th, up to the first that raises.
ModuleStatements(i, st) ==
    IF i > Cardinality(ModuleTemplates) + 1 \/ st.err # <<>> THEN st
    ELSE ModuleStatements(i + 1, ModuleStatement(i, st))

\* The try block of ModuleGenerator.generate with its except clause.
module_try(f) ==
    module_except(ModuleStatements(1, [fs |-> f, n |-> 0, err |-> <<>>, writes |-> {}]), f)

\* The bookkeeping of the calls of ModuleGenerator.generate: the tree before
\* the first call, the tree before this call, the files this call wrote, the
\* tree after each call.
ModuleRun(f) == [fs0 |-> f, before |-> f, writes |-> {}, after |-> <<>>]

\* ModuleGenerator.generate
ModuleGenerator_generate ==
    /\ pc \in {"module", "module_done", "module_raised"}
    /\ calls < MaxCalls
    /\ calls' = calls + 1
    /\ IF ~is_valid_project(fs)
       THEN /\ fs' = fs
            /\ pc' = "module_raised"
            /\ raised' = <<"ValueError:invalid_project">>
            /\ log' = Append(log, [level |-> "error", about |-> <<"ValueError:invalid_project">>])
            /\ run' = [run EXCEPT !.before = fs, !.writes = {}, !.after = Append(@, fs)]
       ELSE LET st == module_try(fs)
            IN /\ fs' = st.fs
               /\ pc' = IF st.err = <<>> THEN "module_done" ELSE "module_raised"
               /\ raised' = st.err
               /\ log' = IF st.err = <<>> THEN log
                         ELSE Append(log, [level |-> "error", about |-> st.err])
               /\ run' = [run EXCEPT !.before = fs, !.writes = st.writes,
                                     !.after = Append(@, st.fs)]
    /\ UNCHANGED <<templates, env, TEMPLATE_MAPPING, db_type, enable_redis,
                   enable_celery, fault, renderVars, moduleVars, cliVars>>

\* The names and versions ModuleGenerator is constructed with.
ModuleNames ==
    {name \in UNION {[1..n -> NameAlphabet] : n \in 1..MaxNameLen} : validate_name(name)}
Versions == {"v1", "v2"}

\* What a user wrote into a generated file before the call.
EditedFile == <<"# edited\n">>

\* A directory that is no project, a project with only app/main.py, a
\* generated project, and one in which the files of the module are there
\* already and were edited.
NoAppTree == write_text(mkdir(EmptyFs, project_path), P(<<"README.md">>), <<"readme">>)
BareAppTree == write_text(mkdir(EmptyFs, P(<<"app">>)), P(<<"app", "main.py">>), <<"main">>)
FullAppTree ==
    WriteAll(MkdirAll(BareAppTree, {P(<<"app", "api", "v1">>), P(<<"app", "services">>),
                                    P(<<"app", "models">>), P(<<"app", "schemas">>)}),
             {P(<<"app", "api", "__init__.py">>), P(<<"app", "services", "__init__.py">>),
              P(<<"app", "models", "__init__.py">>), P(<<"app", "schemas", "__init__.py">>)},
             MarkerText)
EditedAppTree(file, v) ==
    WriteAll(mkdir(FullAppTree, P(<<"app", "api", v>>)),
             {P(<<"app", "api", v, file>>), P(<<"app", "services", file>>),
              P(<<"app", "models", file>>), P(<<"app", "schemas", file>>)},
             EditedFile)

\* The filesystem calls of the try block: one mkdir and one write_text for
\* each of the four files.
ModuleFaultSteps == 1..(2 * Cardinality(ModuleTemplates))

InitModule ==
    /\ db_type = DEFAULT_DB_TYPE
    /\ enable_redis = FALSE
    /\ enable_celery = FALSE
    /\ TEMPLATE_MAPPING = ShippedMapping
    /\ \/ /\ module_name \in ModuleNames
          /\ version \in Versions
          /\ fault = NoFault(FALSE)
          /\ env = Env(TRUE, FullDir, FALSE, {}, TRUE)
       \/ /\ module_name = <<"a", "B">>
          /\ version = "v1"
          /\ fault = NoFault(FALSE)
          /\ env \in {Env(TRUE, FullDir \ {t \o <<PySuffix>>}, FALSE, {}, TRUE) :
                         t \in ModuleTemplates}
                     \cup {Env(FALSE, {}, TRUE, ExistingProjectNames, TRUE)}
       \/ /\ module_name = <<"a", "B">>
          /\ version = "v1"
          /\ fault \in {IoFault("module", k, FALSE) : k \in ModuleFaultSteps}
          /\ env = Env(TRUE, FullDir, FALSE, {}, TRUE)
    /\ fs \in {EmptyFs, NoAppTree, BareAppTree, FullAppTree,
               EditedAppTree(Join(module_name) \o PySuffix, version)}
    /\ templates = _load_templates(env)
    /\ pc = "module"
    /\ raised = <<>>
    /\ log = <<>>
    /\ run = ModuleRun(fs)
    /\ calls = 0
    /\ RenderIdle
    /\ CliIdle

SpecModule == InitModule /\ [][ModuleGenerator_generate]_vars

-----------------------------------------------------------------------------
(* cli.main *)

\* The exceptions that are instances of ValueError: those of validate_name
\* and validate_version, of the existence check of ProjectGenerator.generate,
\* of the project check of ModuleGenerator.generate and of a template that is
\* not in the catalog.
ValueErrors ==
    {"ValueError", "ValueError:validate_name", "ValueError:validate_version",
     "ValueError:exists", "ValueError:invalid_project"}

\* The except clauses of main with a defect: the second one prints and
\* does not call sys.exit(1).
main_except_no_exit(e) ==
    IF e[1] \in ValueErrors
    THEN [label |-> "validation_error", about |-> e, code |-> 1]
    ELSE [label |-> "error", about |-> e, code |-> 0]

\* The except clauses of main: "except ValueError" prints the validation
\* label, "except Exception" the general one; both call sys.exit(1).
main_except(e) ==
    IF e[1] \in ValueErrors
    THEN [label |-> "validation_error", about |-> e, code |-> 1]
    ELSE [label |-> "error", about |-> e, code |-> 1]

\* What the validation of the arguments raises, <<>> when it returns: the
\* name is validated first, the version only for "add".
validation_error(a) ==
    IF ~validate_name(a.name) THEN <<"ValueError:validate_name">>
    ELSE IF a.command = "add" /\ ~validate_version(a.version)
    THEN <<"ValueError:validate_version">>
    ELSE <<>>

\* main up to the call of generate: without a command it prints the help and
\* exits with 1; else it validates the arguments and constructs the generator.
main_validate ==
    /\ pc = "main"
    /\ IF args.command = ""
       THEN /\ pc' = "exited"
            /\ stdout' = Append(stdout, "help")
            /\ exit_code' = <<1>>
            /\ UNCHANGED <<stderr, generator, moduleVars>>
       ELSE IF validation_error(args) # <<>>
       THEN /\ pc' = "exited"
            /\ stderr' = Append(stderr, [label |-> main_except(validation_error(args)).label,
                                         about |-> validation_error(args)])
            /\ exit_code' = <<main_except(validation_error(args)).code>>
            /\ UNCHANGED <<stdout, generator, moduleVars>>
       ELSE IF args.command = "new"
       THEN /\ pc' = "idle"
            /\ generator' = "ProjectGenerator"
            /\ UNCHANGED <<stdout, stderr, exit_code, moduleVars>>
       ELSE /\ pc' = "module"
            /\ generator' = "ModuleGenerator"
            /\ module_name' = strip(args.name)
            /\ version' = Join(args.version)
            /\ UNCHANGED <<stdout, stderr, exit_code>>
    /\ UNCHANGED <<templates, env, TEMPLATE_MAPPING, db_type, enable_redis, enable_celery,
                   fault, fs, raised, log, run, calls, renderVars, args>>

\* main after generate: it prints the success message and returns, or an
\* except clause prints the error and exits.
main_finish ==
    /\ pc \in {"done", "raised", "module_done", "module_raised"}
    /\ generator # "None"
    /\ pc' = "exited"
    /\ IF raised = <<>>
       THEN /\ stdout' = Append(stdout, "success")
            /\ exit_code' = <<0>>
            /\ stderr' = stderr
       ELSE /\ stderr' = Append(stderr, [label |-> main_except(raised).label,
                                         about |-> raised])
            /\ exit_code' = <<main_except(raised).code>>
            /\ stdout' = stdout
    /\ UNCHANGED <<templates, env, TEMPLATE_MAPPING, db_type, enable_redis, enable_celery,
                   fault, fs, raised, log, run, calls, renderVars, moduleVars, args, generator>>

\* The names and versions main is called with: accepted and rejected ones.
CliNames ==
    { <<"p", "r", "o", "j">>, <<" ", "p", "r", "o", "j", " ">>, <<"a", "B">>, <<"a", "_", "1">>,
      <<>>, <<" ">>, <<"a">>, <<"1", "a">>, <<"i", "f">>, <<"c", "o", "n">>, <<"a", "/", "b">> }
CliVersions == { <<"v", "1">>, <<"v", "2", "\n">>, <<"v">>, <<"1">>, <<"v", "1", "a">> }

\* The project names: an accepted one is the name of the project modelled.
NewNames == {n \in CliNames : validate_name(n) => Join(strip(n)) = project_name}

InitCli ==
    /\ db_type = DEFAULT_DB_TYPE
    /\ enable_redis \in BOOLEAN
    /\ enable_celery = FALSE
    /\ TEMPLATE_MAPPING = ShippedMapping
    /\ \/ /\ args \in {[command |-> "new", name |-> n, version |-> <<>>] : n \in NewNames}
          /\ fs \in {FsOut, FsRoot}
          /\ fault \in {NoFault(FALSE)}
                       \cup {IoFault(p, 1, rm) : p \in {"structure", "docs", "other"},
                                                 rm \in BOOLEAN}
          /\ env \in {Env(TRUE, FullDir, FALSE, {}, TRUE),
                      Env(TRUE, FullDir \ {<<"requirements", ".txt">>}, FALSE, {}, TRUE)}
          /\ run = NewRun(fs)
       \/ /\ args \in {[command |-> "add", name |-> n, version |-> v] :
                          n \in CliNames, v \in CliVersions}
          /\ fs \in {NoAppTree, BareAppTree, FullAppTree}
          /\ fault \in {NoFault(FALSE), IoFault("module", 2, FALSE)}
          /\ env \in {Env(TRUE, FullDir, FALSE, {}, TRUE),
                      Env(TRUE, FullDir \ {<<"api_module", PySuffix>>}, FALSE, {}, TRUE)}
          /\ run = ModuleRun(fs)
       \/ /\ args = NoArgs
          /\ fs = FsOut
          /\ fault = NoFault(FALSE)
          /\ env = Env(TRUE, FullDir, FALSE, {}, TRUE)
          /\ run = NewRun(fs)
    /\ templates = _load_templates(env)
    /\ pc = "main"
    /\ raised = <<>>
    /\ log = <<>>
    /\ calls = MaxCalls - 1
    /\ generator = "None"
    /\ stdout = <<>>
    /\ stderr = <<>>
    /\ exit_code = <<>>
    /\ RenderIdle
    /\ ModuleIdle

NextCli == main_validate \/ Next \/ ModuleGenerator_generate \/ main_finish

SpecCli == InitCli /\ [][NextCli]_vars

-----------------------------------------------------------------------------
(* generate with tables that lack rows *)

\* The templates named after their layer: prefix, rest, ".py".
LayerTemplates ==
    {Py2("initializer_", x) : x \in {"init", "db", "log", "redis", "snow", "context"}}
    \cup {Py2("middleware_", x) : x \in {"init", "cors", "exceptions", "http"}}
    \cup {Py2("utils_", x) : x \in {"jwt", "db_async", "api_key"}}
    \cup {Py2("api_", x) : x \in {"init", "dependencies", "exceptions", "responses",
                                  "status", "ping"}}

\* A table of the declared type with no row.
EmptyMapping == [n \in {} |-> Row(<<>>, "None")]

InitFallback ==
    /\ db_type = DEFAULT_DB_TYPE
    /\ enable_redis \in BOOLEAN
    /\ enable_celery = FALSE
    /\ fs = FsOut
    /\ fault \in {NoFault(FALSE), IoFault("utils", 1, FALSE), IoFault("api", 2, FALSE)}
    /\ env = Env(TRUE, FullDir, FALSE, {}, TRUE)
    /\ TEMPLATE_MAPPING \in {Without(ShippedMapping, t) : t \in LayerTemplates}
                            \cup {EmptyMapping, ShippedMapping}
    /\ GenStart
    /\ RenderIdle
    /\ ModuleIdle
    /\ CliIdle

SpecFallback == InitFallback /\ [][Next]_vars

-----------------------------------------------------------------------------
(* Properties *)

Returned == pc \in {"done", "raised"}
RootExists == exists(fs, project_path)

\* The exception the injected failure raises: a filesystem call raises OSError,
\* an absent template makes _validate_template_exists raise ValueError.
InjectedException == IF fault.kind = "io" THEN "OSError" ELSE "ValueError"

\* generate raised its RuntimeError, chained by "from" down to the injected exception.
RaisedFromOriginal ==
    /\ pc = "raised"
    /\ Len(raised) >= 2
    /\ Head(raised) = "RuntimeError:generate"
    /\ Last(raised) = InjectedException

C2_ConflictTouchesNothing ==
    (calls > 0 /\ run.root_existed)
        => /\ pc = "raised"
           /\ raised = <<"ValueError:exists">>
           /\ fs = run.fs0
           /\ run.cleanup = "none"
           /\ run.completed = <<>>
           /\ run.writes = {}

\* C2 witness: the second call, after a call that generated the project.
C2_Witness ==
    /\ calls = 2
    /\ run.root_existed
    /\ pc = "raised"
    /\ exists(fs, P(<<"README.md">>))
    /\ exists(fs, P(<<"app", "main.py">>))

\* A step that creates or changes no file or directory.
NoWrite == \A q \in DOMAIN fs' : q \in DOMAIN fs /\ fs'[q] = fs[q]
\* A step that enters no phase of the try block.
NoPhaseEntered == pc' \notin PhasesAfterRoot

C4_DeletesOnlyOwnRoot ==
    run.cleanup = "deleted" => run.root_by = "run"

\* C5: when a phase fails and the deletion of the root fails too, generate
\* raises the generation error chained to the phase's error; the deletion
\* error is logged as a warning and is no part of what is raised.
C5_CleanupFailureNotMasking ==
    (pc = "raised" /\ run.cleanup = "failed")
        => /\ raised = GenerationFailed(run.error)
           /\ RaisedFromOriginal
           /\ \A i \in 1..Len(raised) : raised[i] # "OSError:rmtree"
           /\ \E i \in 1..Len(log) :
                  log[i] = [level |-> "warning", about |-> <<"OSError:rmtree">>]

\* C5 witness: a phase failed, then the deletion of the root failed.
C5_Witness ==
    /\ pc = "raised"
    /\ run.cleanup = "failed"
    /\ run.hit = "api"
    /\ RootExists

\* C6: no file is written from a template the catalog has no entry for, and
\* no file holds the "not found" line.
C6_NoFileFromMissingTemplate ==
    /\ \A w \in run.writes :
           w.name # <<>> => _get_template_name(w.name) \in DOMAIN templates
    /\ \A q \in DOMAIN fs :
           \A f \in RequestedFiles : fs[q] # NotFoundLine(_get_template_name(f))

\* C7: no file is written for a template whose row of the table carries a
\* condition that is false for the context.
C7_FalseConditionWritesNothing ==
    \A w \in run.writes :
        (/\ w.name \in DOMAIN TEMPLATE_MAPPING
         /\ TEMPLATE_MAPPING[w.name].condition # "None")
            => Holds(TEMPLATE_MAPPING[w.name].condition, w.tcontext)

\* The *.py template files present in the backing source the catalog was loaded from.
BackingPyFiles ==
    {f \in (IF env.templates_dir THEN {g \in env.dir_files : Loadable(g)}
            ELSE IF env.admin_dir THEN ExistingProjectNames \cap env.admin_files
            ELSE {}) : Last(f) = PySuffix}

\* C8: a code template present in the backing source, requested by its name
\* X.py, passes the existence check and is the text rendered, whichever
\* backing source the catalog was loaded from.
C8_PresentTemplateResolves ==
    \A f \in BackingPyFiles :
        /\ _validate_template_exists(f)
        /\ _render_template(f, EmptyContext) = safe_substitute(FileText(env, f), EmptyContext)

\* The number of "$" that immediately precede position i of text.
RECURSIVE DollarsBefore(_, _)
DollarsBefore(text, i) ==
    IF i > 1 /\ text[i - 1] = "$" THEN 1 + DollarsBefore(text, i - 1) ELSE 0

\* The identifiers a text of the bounded length can hold between "${" and "}".
Identifiers ==
    {id \in UNION {[1..n -> IdChars \cap Alphabet] : n \in 1..MaxTextLen} :
        id[1] \in IdStartChars}

\* A placeholder ${id} stands at position i of text, its "$" not escaped.
PlaceholderAt(text, i, id) ==
    /\ i + Len(id) + 2 <= Len(text)
    /\ SubSeq(text, i, i + Len(id) + 2) = <<"$", "{">> \o id \o <<"}">>
    /\ DollarsBefore(text, i) % 2 = 0

Occurs(sub, text) ==
    \E j \in 1..(Len(text) - Len(sub) + 1) : SubSeq(text, j, j + Len(sub) - 1) = sub

\* C9: rendering a found template leaves every placeholder ${id} whose id is
\* no key of the context literally in the output.
C9_MissingKeyLeftVerbatim ==
    r_pc = "done" =>
        LET text == templates[r_name]
        IN \A i \in 1..Len(text) : \A id \in Identifiers :
               (PlaceholderAt(text, i, id) /\ Join(id) \notin DOMAIN r_context)
                   => Occurs(<<"$", "{">> \o id \o <<"}">>, r_out)

\* C9 witness: a text with a placeholder whose identifier is no key of the
\* context, which has another key, has been rendered.
C9_Witness ==
    /\ r_pc = "done"
    /\ templates[r_name] = <<"$", "{", "a", "}", "1">>
    /\ DOMAIN r_context = {"a1"}
    /\ r_out = <<"$", "{", "a", "}", "1">>

RECURSIVE OnlyBraced(_, _, _)
\* The text with each ${id} whose id is a key of the context replaced by the
\* stringified value, and every other character kept.
OnlyBraced(text, i, context) ==
    IF i > Len(text) THEN <<>>
    ELSE IF \E id \in Identifiers :
                /\ i + Len(id) + 2 <= Len(text)
                /\ SubSeq(text, i, i + Len(id) + 2) = <<"$", "{">> \o id \o <<"}">>
                /\ Join(id) \in DOMAIN context
    THEN LET id == CHOOSE id \in Identifiers :
                       /\ i + Len(id) + 2 <= Len(text)
                       /\ SubSeq(text, i, i + Len(id) + 2) = <<"$", "{">> \o id \o <<"}">>
         IN <<str(context[Join(id)])>> \o OnlyBraced(text, i + Len(id) + 3, context)
    ELSE <<text[i]>> \o OnlyBraced(text, i + 1, context)

\* C10: render changes nothing but the placeholders ${id} whose id is a key
\* of the context; every other character is in the output, in order.
C10_OnlyBracedKeysChange ==
    (r_pc = "done" /\ templates[r_name] # <<>>)
        => r_out = OnlyBraced(templates[r_name], 1, r_context)

\* The directories of the generated layout that no flag gates.
FixedDirectories ==
    {<<"app", "api", "default">>, <<"app", "api", "v1">>, <<"app", "initializer">>,
     <<"app", "middleware">>, <<"app", "models">>, <<"app", "schemas">>,
     <<"app", "services">>, <<"app", "utils">>, <<"app", "cache">>,
     <<"docs">>, <<"logs">>, <<"tests">>}

\* The directories the structure builder lists for the flags of this generator.
ListedDirectories ==
    {_build_directory_list(enable_celery)[i] :
        i \in 1..Len(_build_directory_list(enable_celery))}

HasMarker(d) ==
    /\ is_dir(fs, P(d))
    /\ exists(fs, P(d \o <<"__init__.py">>))
    /\ ~is_dir(fs, P(d \o <<"__init__.py">>))

C12_UnconditionalTargetsExist ==
    pc = "done" =>
        /\ \A name \in DOMAIN TEMPLATE_MAPPING :
               TEMPLATE_MAPPING[name].condition = "None"
                   => /\ exists(fs, P(TEMPLATE_MAPPING[name].path))
                      /\ ~is_dir(fs, P(TEMPLATE_MAPPING[name].path))
        /\ exists(fs, P(<<"app", "cache", "__init__.py">>))

\* C12 witness: a run without redis has completed and app/cache/__init__.py
\* holds the rendered cache_init template, app/initializer/context.py exists.
C12_Witness ==
    /\ pc = "done"
    /\ ~enable_redis
    /\ db_type = "postgresql"
    /\ TEMPLATE_MAPPING = ShippedMapping
    /\ fs[P(<<"app", "cache", "__init__.py">>)]
           = _render_template(Py("cache_init"), EmptyContext)
    /\ exists(fs, P(<<"app", "initializer", "context.py">>))

\* C13: the structure builder lists app_celery exactly when the celery flag
\* is enabled, and after a successful run app_celery exists under the root
\* exactly when the flag was set.
C13_CeleryFlagGatesSubtree ==
    pc = "done" =>
        /\ (<<"app_celery">> \in ListedDirectories) <=> enable_celery
        /\ is_dir(fs, P(<<"app_celery">>)) <=> enable_celery

\* C14: _create_directory_structure, run over a tree in which some of the
\* listed directories and their marker files already exist, raises no error,
\* leaves every listed directory with its marker, leaves every path that was
\* there before with its content (the edited markers included), makes nothing
\* but listed directories, their parents and markers, and a second run leaves
\* the tree of the first.
C14_StructureIdempotentNonClobbering ==
    calls >= 1 =>
        /\ pc = "builder_returned"
        /\ raised = <<>>
        /\ \A d \in ListedDirectories : HasMarker(d)
        /\ \A q \in DOMAIN run.fs0 : q \in DOMAIN fs /\ fs[q] = run.fs0[q]
        /\ \A q \in DOMAIN fs \ DOMAIN run.fs0 :
               \/ fs[q] = DirEntry /\ \E d \in ListedDirectories : IsPrefix(q, P(d))
               \/ fs[q] = MarkerText
                      /\ \E d \in ListedDirectories : q = P(d \o <<"__init__.py">>)
        /\ calls >= 2 => fs = run.after[1]

\* C14 witness: two runs over a tree that had docs with an edited marker and
\* tests without one; the edited marker is as it was, the other was written.
C14_Witness ==
    /\ calls = 2
    /\ pc = "builder_returned"
    /\ is_dir(run.fs0, P(<<"tests">>))
    /\ ~exists(run.fs0, P(<<"tests", "__init__.py">>))
    /\ exists(run.fs0, P(<<"docs", "__init__.py">>))
    /\ run.fs0[P(<<"docs", "__init__.py">>)] = EditedMarker
    /\ fs[P(<<"docs", "__init__.py">>)] = EditedMarker
    /\ fs[P(<<"tests", "__init__.py">>)] = MarkerText

\* The four files of a module, in the order generate writes them: template,
\* directory, path.
Artifact(template_name, dir) ==
    [template |-> template_name, dir |-> dir, path |-> dir \o <<ModuleFile>>]
Artifacts ==
    << Artifact(<<"api_module">>, api_version_dir),
       Artifact(<<"service_module">>, services_dir),
       Artifact(<<"model_module">>, models_dir),
       Artifact(<<"schema_module">>, schemas_dir) >>
ArtifactPaths == {Artifacts[j].path : j \in 1..Len(Artifacts)}

\* The text a module template renders to for this module.
RenderedArtifact(j) ==
    safe_substitute(templates[Artifacts[j].template], _get_context)

\* C16: ModuleGenerator.generate called on a tree without app/ raises the
\* invalid-project error and the filesystem is the one it was called on:
\* no directory made, no file written.
C16_InvalidProjectTouchesNothing ==
    (calls >= 1 /\ ~exists(run.before, P(<<"app">>)))
        => /\ pc = "module_raised"
           /\ raised = <<"ValueError:invalid_project">>
           /\ fs = run.before
           /\ run.writes = {}

\* C16 witness: generate was called on a directory that holds a README.md
\* and no app/, and raised.
C16_Witness ==
    /\ calls = 1
    /\ pc = "module_raised"
    /\ run.before = NoAppTree
    /\ fs = NoAppTree
    /\ module_name = <<"a", "B">>

\* C17: a successful ModuleGenerator.generate writes the four files
\* app/api/v/m.py, app/services/m.py, app/models/m.py, app/schemas/m.py and
\* no other file; every other path that was there keeps its content, and what
\* else is new is a directory.
C17_WritesExactlyFourFiles ==
    pc = "module_done" =>
        /\ {w.path : w \in run.writes} = ArtifactPaths
        /\ ArtifactPaths =
               {P(<<"app", "api", version, ModuleFile>>), P(<<"app", "services", ModuleFile>>),
                P(<<"app", "models", ModuleFile>>), P(<<"app", "schemas", ModuleFile>>)}
        /\ \A q \in ArtifactPaths : exists(fs, q) /\ ~is_dir(fs, q)
        /\ \A q \in DOMAIN run.before \ ArtifactPaths :
               q \in DOMAIN fs /\ fs[q] = run.before[q]
        /\ \A q \in DOMAIN fs \ (DOMAIN run.before \cup ArtifactPaths) : fs[q] = DirEntry

\* C17 witness: module a_B of version v2 was added to a generated project.
C17_Witness ==
    /\ pc = "module_done"
    /\ calls = 1
    /\ module_name = <<"a", "_", "B">>
    /\ version = "v2"
    /\ run.before = FullAppTree
    /\ exists(fs, P(<<"app", "api", "v2", "a_B.py">>))
    /\ fs[P(<<"app", "services", "__init__.py">>)] = MarkerText

\* The index of the file whose generation the injected failure stops: the
\* first whose template the catalog lacks, or the one whose mkdir or
\* write_text is the filesystem call that raises.
FailedArtifact ==
    IF fault.kind = "io" THEN (fault.step + 1) \div 2
    ELSE CHOOSE j \in 1..Len(Artifacts) :
             /\ Artifacts[j].template \notin DOMAIN templates
             /\ \A i \in 1..(j - 1) : Artifacts[i].template \in DOMAIN templates

C19_OverwriteIdempotent ==
    pc = "module_done" =>
        /\ \A j \in 1..Len(Artifacts) : fs[Artifacts[j].path] = RenderedArtifact(j)
        /\ calls >= 2 => fs = run.after[1]

\* C19 witness: two runs on a project in which the four files had been edited.
C19_Witness ==
    /\ pc = "module_done"
    /\ calls = 2
    /\ \A j \in 1..Len(Artifacts) :
           /\ exists(run.fs0, Artifacts[j].path)
           /\ run.fs0[Artifacts[j].path] = EditedFile
           /\ fs[Artifacts[j].path] # EditedFile

RECURSIVE PascalCaseFrom(_, _)
\* The PascalCase derivative of a name: the separators "_" and "-" removed,
\* the first letter of each word upper-cased, every other letter as it is.
PascalCaseFrom(name, i) ==
    IF i > Len(name) THEN <<>>
    ELSE IF name[i] \in {"_", "-"} THEN PascalCaseFrom(name, i + 1)
    ELSE << IF i = 1 \/ name[i - 1] \in {"_", "-"} THEN upper(name[i]) ELSE name[i] >>
         \o PascalCaseFrom(name, i + 1)

\* C20: for a module name the validator accepts, the ModuleName of the render
\* context is the PascalCase derivative of the module name, and it is what
\* the ${ModuleName} placeholder of a written file is replaced by.
C20_ModuleNameIsPascalCase ==
    (pc = "module_done" /\ validate_name(module_name))
        => /\ _get_context.ModuleName = StrV(Join(PascalCaseFrom(module_name, 1)))
           /\ fs[Artifacts[1].path] =
                  safe_substitute(templates[Artifacts[1].template],
                                  [module_name |-> StrV(Join(module_name)),
                                   ModuleName |-> StrV(Join(PascalCaseFrom(module_name, 1)))])

-----------------------------------------------------------------------------
(* The uv.toml step of _generate_test_files *)

\* The phases whose exception leaves generate: all but the docs phase.
MandatoryPhases == PhaseSet \ {"docs"}

UvTemplate == <<"uv", ".toml">>

\* uv.toml was written in this run.
UvWritten == \E w \in run.writes : w.name = UvTemplate

\* The uv.toml step raised in this run: the probe succeeded, the five files
\* before it were written and its template is not in the catalog.
UvFailed ==
    /\ run.hit = "tests"
    /\ _should_use_uv
    /\ ~_validate_template_exists(UvTemplate)
    /\ run.error = <<"RuntimeError:tests", "ValueError">>

\* The mandatory phases other than the one holding the uv.toml step returned.
MandatoryPhasesDone ==
    \A p \in MandatoryPhases \ {"tests"} : \E i \in 1..Len(run.completed) : run.completed[i] = p

\* C21: the uv.toml step is attempted only if the probe _should_use_uv
\* succeeds; it runs after the mandatory phases; its failure is not fatal
\* when the mandatory phases have succeeded, and rolls the root back when
\* they have not.
C21_UvStepLateAndNonFatal ==
    /\ (UvWritten \/ UvFailed) => _should_use_uv
    /\ (UvWritten \/ UvFailed) => MandatoryPhasesDone
    /\ (UvFailed /\ MandatoryPhasesDone) => pc \notin {"except", "raised"}
    /\ (UvFailed /\ ~MandatoryPhasesDone /\ pc = "raised" /\ ~fault.rmtree) => ~RootExists

-----------------------------------------------------------------------------
(* cli.main: labels and exit codes *)

\* main has exited after running one of its two subcommands.
Exited == pc = "exited" /\ args.command \in {"new", "add"}

\* The exceptions of a rejected name or version.
ValidationErrors == {"ValueError:validate_name", "ValueError:validate_version"}

\* C22: main prints the validation-error label only for a rejected name or
\* version; every exception raised by a generator (root already exists, no
\* valid project, missing template, any other failure) is printed under the
\* general error label.
C22_ValidationLabelOnlyForValidation ==
    (Exited /\ stderr # <<>>) =>
        /\ Len(stderr) = 1
        /\ (stderr[1].label = "validation_error") <=> (stderr[1].about[1] \in ValidationErrors)
        /\ generator # "None" => stderr[1].label = "error"

\* The names and versions of CliNames and CliVersions that the validators
\* are to accept: a letter first, then letters, digits, "_" and "-", two
\* characters at least, no keyword, no reserved name; "v" and digits.
AcceptedNames ==
    { <<"p", "r", "o", "j">>, <<" ", "p", "r", "o", "j", " ">>, <<"a", "B">>, <<"a", "_", "1">> }
AcceptedVersions == { <<"v", "1">>, <<"v", "2", "\n">> }
Accepted(a) ==
    /\ a.name \in AcceptedNames
    /\ a.command = "add" => a.version \in AcceptedVersions

\* C23: for both subcommands the exit code is 0 exactly when the arguments
\* are accepted and generate returned, 1 on every validation error and every
\* exception of generate; on a validation error no generator was constructed,
\* generate was not called and the filesystem is as it was.
C23_ExitCodes ==
    Exited =>
        /\ exit_code \in {<<0>>, <<1>>}
        /\ exit_code = <<0>> <=> (Accepted(args) /\ generator # "None" /\ raised = <<>>)
        /\ ~Accepted(args) =>
              /\ generator = "None"
              /\ calls = MaxCalls - 1
              /\ fs = run.fs0
              /\ stderr # <<>> /\ stderr[1].about[1] \in ValidationErrors
        /\ (Accepted(args) /\ raised # <<>>) => (exit_code = <<1>> /\ stderr # <<>>)

\* main exited with 1 after ProjectGenerator.generate raised RuntimeError.
C23_Witness ==
    /\ Exited
    /\ args.command = "new"
    /\ generator = "ProjectGenerator"
    /\ raised # <<>>
    /\ raised[1] = "RuntimeError:generate"
    /\ exit_code = <<1>>

-----------------------------------------------------------------------------
(* The requirements output *)

\* The requirements.txt written by the run, with the context it was rendered with.
RequirementsWrites == {w \in run.writes : w.name = <<"requirements", ".txt">>}

\* The dependency lines of each db kind, joined by newlines.
ExpectedDbDeps ==
    [sqlite |-> "aiosqlite==0.21.0",
     mysql |-> "aiomysql==0.2.0\npymysql==1.1.0",
     postgresql |-> "asyncpg==0.29.0\npsycopg2-binary==2.9.9"]

\* C24: for every supported db kind and every value of the redis flag, the
\* context requirements.txt is rendered with binds db_deps to the
\* newline-joined dependency lines of that db kind, and redis_deps to the
\* redis dependency line when the flag is set and to "" otherwise.
C24_RequirementsContext ==
    \A w \in RequirementsWrites :
        /\ db_type \in SUPPORTED_DB_TYPES
        /\ w.phase = "other"
        /\ w.context.db_deps = StrV(ExpectedDbDeps[db_type])
        /\ w.context.redis_deps = StrV(IF enable_redis THEN "redis==7.1.0" ELSE "")
        /\ pc = "done" =>
              fs[w.path] = safe_substitute(templates[<<"requirements", ".txt">>], w.context)

\* A finished run for postgresql with redis that wrote requirements.txt.
C24_Witness ==
    /\ pc = "done"
    /\ db_type = "postgresql"
    /\ enable_redis
    /\ RequirementsWrites # {}
    /\ \A w \in RequirementsWrites :
          /\ w.path = P(<<"requirements.txt">>)
          /\ w.context.db_deps = StrV("asyncpg==0.29.0\npsycopg2-binary==2.9.9")
          /\ w.context.redis_deps = StrV("redis==7.1.0")

-----------------------------------------------------------------------------
(* Unmapped templates *)

LayerPhases == {"initializer", "middleware", "utils", "api"}

\* The writes of the layer phases whose template has no row in the table.
UnmappedLayerWrites ==
    {w \in run.writes : /\ w.phase \in LayerPhases
                        /\ w.name \in LayerTemplates
                        /\ w.name \notin DOMAIN TEMPLATE_MAPPING}

\* The layer directory a prefix names, and the file the convention gives:
\* the prefix stripped, "_" put first for initializer files.
LayerOf(name) ==
    CASE name[1] = "initializer_" -> "initializer"
      [] name[1] = "middleware_" -> "middleware"
      [] name[1] = "utils_" -> "utils"
      [] OTHER -> "api"
ConventionFile(name) ==
    (IF name[1] = "initializer_" THEN "_" ELSE "") \o name[2] \o name[3]
ConventionPath(name) == P(<<"app", LayerOf(name), ConventionFile(name)>>)

\* No layer phase raised in a run without an injected failure.
UnmappedDoesNotFail == fault.kind = "none" => run.hit \notin LayerPhases

\* C25 as stated: a template without a row does not make its layer phase
\* fail, and is written to the layer directory under its name with the layer
\* prefix stripped ("_" put first for initializer files).
C25_UnmappedFallsBackToConvention ==
    /\ UnmappedDoesNotFail
    /\ \A w \in UnmappedLayerWrites : w.path = ConventionPath(w.name)

\* C25 amended: the same, except that api_init.py falls back to
\* app/api/__init__.py and api_ping.py to app/api/default/ping.py.
C25_UnmappedFallsBackExceptApiInitPing ==
    /\ UnmappedDoesNotFail
    /\ \A w \in UnmappedLayerWrites :
          /\ w.name = Py2("api_", "init") => w.path = P(<<"app", "api", "__init__.py">>)
          /\ w.name = Py2("api_", "ping") => w.path = P(<<"app", "api", "default", "ping.py">>)
          /\ w.name \notin {Py2("api_", "init"), Py2("api_", "ping")} =>
                w.path = ConventionPath(w.name)
          /\ pc = "done" => fs[w.path] = _render_template(w.name, w.context)

\* A finished run under the table with no row: every layer template was
\* written to its fallback path.
C25_Witness ==
    /\ pc = "done"
    /\ TEMPLATE_MAPPING = EmptyMapping
    /\ {w.name : w \in UnmappedLayerWrites} = LayerTemplates
    /\ exists(fs, P(<<"app", "initializer", "_db.py">>))
    /\ exists(fs, P(<<"app", "middleware", "init.py">>))
    /\ exists(fs, P(<<"app", "utils", "jwt.py">>))
    /\ exists(fs, P(<<"app", "api", "status.py">>))

-----------------------------------------------------------------------------
(* The order of the phases *)

\* Root creation, directory structure, core files, the feature files, tests,
\* docs, misc.
ExpectedOrder ==
    << "root", "structure", "core",
       "initializer", "middleware", "utils", "cache", "api", "service", "model", "schema",
       "enterprise",
       "tests", "docs", "other" >>

\* C26: in every run of generate the phases that have returned are an initial
\* part of the fixed order (each at most once, none before its predecessor
\* returned) and the phase about to run is the next one; every file written
\* lies in a directory under the root that did not exist when generate was
\* called and was there when the file was written; generate returns only
\* after the misc phase.
C26_PhasesInLinearOrder ==
    /\ Len(run.completed) <= Len(ExpectedOrder)
    /\ \A i \in 1..Len(run.completed) : run.completed[i] = ExpectedOrder[i]
    /\ pc \in PhaseSet => pc = ExpectedOrder[Len(run.completed) + 1]
    /\ pc = "except" => run.hit = ExpectedOrder[Len(run.completed) + 1]
    /\ pc = "done" => run.completed = ExpectedOrder
    /\ \A w \in run.writes :
          /\ IsPrefix(project_path, parent(w.path))
          /\ ~exists(run.fs0, parent(w.path))
          /\ pc # "raised" => is_dir(fs, parent(w.path))
          /\ w.phase # "structure" =>
                \E i \in 1..Len(run.completed) : run.completed[i] = "structure"
    /\ run.error # <<>> => Last(run.error) # "FileNotFoundError"

\* A run that returned: all fifteen phases in order, and the file of the
\* directory the enterprise phase makes itself.
C26_Witness ==
    /\ pc = "done"
    /\ run.completed = ExpectedOrder
    /\ \E w \in run.writes : w.phase = "enterprise" /\ w.path = P(<<"app", "core", "lifespan.py">>)
    /\ \E w \in run.writes : w.phase = "other"

-----------------------------------------------------------------------------
(* The render contexts of one run *)

\* The keys bound from the constructor arguments, and those the misc phase adds.
BaseKeys == {"project_name", "db_type", "enable_redis", "enable_celery"}
AddedKeys == {"db_deps", "redis_deps"}

\* The value a base key stands for in this run.
BaseValue(key) ==
    CASE key = "project_name" -> StrV("proj")
      [] key = "db_type" -> StrV(db_type)
      [] key = "enable_redis" -> BoolV(enable_redis)
      [] OTHER -> BoolV(enable_celery)

\* The writes of the run that rendered a template.
TemplateWrites == {w \in run.writes : w.name # <<>>}

\* C27: within one run of generate no render-context key is rebound: a key
\* that occurs in the contexts of two writes has the same value in both,
\* the keys are project_name, db_type, enable_redis and enable_celery, bound
\* to the arguments of the run, and the keys a later phase adds to them
\* are db_deps and redis_deps, in the misc phase.
C27_ContextKeysNeverRebound ==
    /\ \A w1, w2 \in TemplateWrites :
          \A key \in DOMAIN w1.context \cap DOMAIN w2.context :
              w1.context[key] = w2.context[key]
    /\ \A w \in TemplateWrites :
          /\ DOMAIN w.context \subseteq BaseKeys \cup AddedKeys
          /\ \A key \in DOMAIN w.context \cap BaseKeys : w.context[key] = BaseValue(key)
          /\ DOMAIN w.context \cap AddedKeys # {} =>
                (w.phase = "other" /\ BaseKeys \cup AddedKeys = DOMAIN w.context)

\* A finished run for a db kind other than the default one, in which
\* db_type is bound by the initializer, tests and misc phases.
C27_Witness ==
    /\ pc = "done"
    /\ db_type = "postgresql"
    /\ \A p \in {"initializer", "tests", "other"} :
          \E w \in TemplateWrites : w.phase = p /\ "db_type" \in DOMAIN w.context
    /\ \E w \in TemplateWrites : "db_deps" \in DOMAIN w.context

-----------------------------------------------------------------------------
(* The context of target-path resolution *)

\* C28: for every template written through _get_template_target_path, the
\* context passed to it is the context the template was rendered with.
C28_ResolveContextIsRenderContext ==
    \A w \in run.writes : w.resolve => w.tcontext = w.context

-----------------------------------------------------------------------------
(* render of a template that is in the catalog *)

\* C29: when the name passed to render is a key of the catalog (the test of
\* _validate_template_exists), render returns the substitution of the text
\* stored under it, whatever that text is, the empty text included, and
\* never the "# Template ... not found" line.
C29_CatalogTemplateRendersStoredText ==
    (r_pc = "done" /\ r_name \in DOMAIN templates) =>
        /\ r_out = safe_substitute(templates[r_name], r_context)
        /\ r_out # NotFoundLine(r_name)

-----------------------------------------------------------------------------
(* The filesystem outside the root *)

\* The paths of a filesystem that are not the root nor under it.
Outside(f) == {q \in DOMAIN f : ~IsPrefix(project_path, q)}

\* The filesystem outside the root is as it was when generate was called.
OutsideUnchanged ==
    /\ Outside(fs) = Outside(run.fs0)
    /\ \A q \in Outside(fs) : fs[q] = run.fs0[q]

\* C30: generate creates, modifies and deletes paths only under the project
\* root; after a failed run the filesystem outside the root is what it was
\* before the run, also when the output directory did not exist before it.
C30_NothingOutsideRootChanges ==
    /\ pc = "done" => OutsideUnchanged
    /\ (pc = "raised" /\ run.hit # "none") => OutsideUnchanged

=============================================================================
